---- MODULE Spec2Model ----
(***************************************************************************)
(* Model of the partitioned 2D Burgers solver (src/parSrc/Burgers2P.cpp)   *)
(* and of the run-parameter handling of src/Model.cpp.                     *)
(*                                                                         *)
(* Numbers.  The program computes in doubles; the model computes in exact  *)
(* integers.  The grid spacings enter only through 1/dx and 1/dy, so the   *)
(* model carries the inverse spacings idx = 1/dx and idy = 1/dy (e.g.      *)
(* Lx = 5, Nx = 10 gives idx = 2), and every coefficient the code forms    *)
(* (c/dx^2, ax/dx, b/dy, ...) is then an integer.  The energy, which the   *)
(* code scales by 0.5*dx*dy, is kept as the integer U.U + V.V, i.e. in     *)
(* units of 0.5*dx*dy.                                                     *)
(*                                                                         *)
(* Fields are column-major as in the code: index i*Nyr + j is column i     *)
(* (x-direction), row j (y-direction).                                     *)
(***************************************************************************)
EXTENDS Integers, Sequences, FiniteSets, TLC

(***************************************************************************)
(* Bounds of the model.                                                    *)
(***************************************************************************)
\* extent of a worker's sub-block in x and in y
LocNxr == 2
LocNyr == 2
\* largest number of mesh columns and of mesh rows
MaxPx == 3
MaxPy == 3
\* largest number of worker processes of a mesh
MaxProcs == 4
\* number of time levels; the loop of SetIntegratedVelocity runs Nt-1 steps
Nt == 3

VARIABLES
    Px, Py,          \* shape of the process mesh
    nt,              \* number of time levels of this run (Model::GetNt)
    par,             \* run parameters: ax, ay, b, c, idx, idy, dt
    eager,           \* the MPI library buffers standard-mode sends (TRUE) or
                     \* completes them only at the matching receive (FALSE)
    U0, V0,          \* the initial global field (input of the run)
    single,          \* the fields of the single-worker run of the same input after
                     \* 0, 1, ..., Nt-1 steps (what the partitioned run is compared with)
    U, V,            \* per worker: the local velocity fields
    NextU, NextV,    \* per worker: the buffers returned by NextVelocityState
    upVel, downVel, leftVel, rightVel,   \* per worker: the halo buffers
    coeffs,          \* per worker: the four coefficient matrices
    pc,              \* per worker: position in the program
    k,               \* per worker: loop counter of SetIntegratedVelocity
    got,             \* per worker: the MPI_Sendrecv calls of the current SetCaches
                     \* whose receive has completed
    chan,            \* messages in flight, per (sender, receiver), in order
    contrib,         \* MPI_Allreduce: the contributions handed in so far
    E,               \* per worker: the energy member
    cnt,             \* per worker: how often each operation has been entered
    M,               \* per worker: the global matrix of WriteVelocityFile,
                     \* a function on <<row, column>>
    gathered,        \* MPI_Gatherv: per worker, the send buffers handed in and
                     \* not yet received by the root, in order
    dataTxt,         \* the file data.txt: one record per field written
    local,           \* serial Burgers: the members local.U, local.V, local.NextU,
                     \* local.NextV
    spc,             \* serial Burgers: position in SetIntegratedVelocity
    sk,              \* serial Burgers: loop counter of SetIntegratedVelocity
    histNx, histNy,  \* history-keeping Burgers: the grid sizes Nx and Ny of its Model
    hpc,             \* history-keeping Burgers: position in SetInitialVelocity
    hi, hj,          \* history-keeping Burgers: the loop counters i and j
    histU0,          \* history-keeping Burgers: the array U0, a function on
                     \* 0 .. Nyr*Nxr - 1 once allocated
    wild,            \* history-keeping Burgers: the stores made outside U0, as
                     \* records of the loop counters and of the index
    mpc, argc, argv, \* Model::Model: position, argument count, argument values
    mp,              \* Model: the parameter members ax, ay, b, c, Lx, Ly, T
    numerics,        \* Model: <<>> while the grid numerics are unset, else
                     \* <<the record SetNumerics stored>>
    out              \* the lines printed to cout

vars == <<Px, Py, nt, par, eager, U0, V0, single, U, V, NextU, NextV, upVel, downVel,
          leftVel, rightVel, coeffs, pc, k, got, chan, contrib, E, cnt,
          M, gathered, dataTxt, local, spc, sk, histNx, histNy, hpc, hi, hj, histU0, wild,
          mpc, argc, argv, mp, numerics, out>>

solverVars == <<Px, Py, nt, par, eager, U0, V0, single, U, V, NextU, NextV, upVel, downVel,
                leftVel, rightVel, coeffs, pc, k, got, chan, contrib, E, cnt>>

outputVars == <<M, gathered, dataTxt>>

serialVars == <<local, spc, sk>>

historyVars == <<histNx, histNy, hpc, hi, hj, histU0, wild>>

modelVars == <<mpc, argc, argv, mp, numerics, out>>

(***************************************************************************)
(* Arithmetic helpers.                                                     *)
(***************************************************************************)
RECURSIVE SumTo(_, _)
\* sum of f[0] + ... + f[n-1]
SumTo(f, n) == IF n = 0 THEN 0 ELSE f[n - 1] + SumTo(f, n - 1)

\* an all-zero vector of length n (SetZeroes)
Zeroes(n) == [x \in 0 .. n - 1 |-> 0]

\* a vector of length n holding the same value everywhere
Fill(n, v) == [x \in 0 .. n - 1 |-> v]

(***************************************************************************)
(* Topology of the process mesh (GridTopology, an external collaborator).  *)
(* Rank r sits at mesh column r % Px and mesh row r \div Px; up is the     *)
(* neighbour at smaller y-index, left the neighbour at smaller x-index.    *)
(***************************************************************************)
\* the "no neighbour" sentinel: any negative rank
NoNeighbour == -1

Procs == 0 .. Px * Py - 1

\* the process meshes of the model
Meshes == {m \in (1 .. MaxPx) \X (1 .. MaxPy) : m[1] * m[2] <= MaxProcs}

\* extents of every worker's sub-block
Nxr == LocNxr
Nyr == LocNyr

\* extents of the global interior grid (the program's Nx-2 and Ny-2), which
\* the mesh divides evenly
GX == Px * Nxr
GY == Py * Nyr

GetDisplX(w) == (w % Px) * Nxr
GetDisplY(w) == (w \div Px) * Nyr

GetUp(w) == IF w \div Px = 0 THEN NoNeighbour ELSE w - Px
GetDown(w) == IF w \div Px = Py - 1 THEN NoNeighbour ELSE w + Px
GetLeft(w) == IF w % Px = 0 THEN NoNeighbour ELSE w - 1
GetRight(w) == IF w % Px = Px - 1 THEN NoNeighbour ELSE w + 1

\* the sub-block of worker w cut out of a global column-major field G
Block(G, w) ==
    [x \in 0 .. Nxr * Nyr - 1 |->
        G[(GetDisplX(w) + (x \div Nyr)) * GY + GetDisplY(w) + (x % Nyr)]]

(***************************************************************************)
(* Dense derivative operators.  A matrix is a function on                  *)
(* (0..n-1) \X (0..n-1), <<r, c>> being row r, column c.                   *)
(***************************************************************************)
\* Helpers GenSymm: diagonal alpha, the two adjacent off-diagonals beta
GenSymm(alpha, beta, n) ==
    [rc \in (0 .. n - 1) \X (0 .. n - 1) |->
        IF rc[1] = rc[2] THEN alpha
        ELSE IF rc[1] = rc[2] + 1 \/ rc[2] = rc[1] + 1 THEN beta
        ELSE 0]

\* Helpers GenTrmm: diagonal alpha and one adjacent off-diagonal beta, the
\* super-diagonal when UPPER and the sub-diagonal otherwise
GenTrmm(alpha, beta, n, UPPER) ==
    [rc \in (0 .. n - 1) \X (0 .. n - 1) |->
        IF rc[1] = rc[2] THEN alpha
        ELSE IF UPPER /\ rc[2] = rc[1] + 1 THEN beta
        ELSE IF ~UPPER /\ rc[1] = rc[2] + 1 THEN beta
        ELSE 0]

\* BLAS: the symmetric matrix that dsymm with uplo = 'U' reads out of A
\* (only the upper triangle of A is referenced)
SymUpper(A, r, c) == IF r <= c THEN A[<<r, c>>] ELSE A[<<c, r>>]

\* BLAS dsymm('R','U', ny, nx, 1.0, A, nx, B, ny, 0.0, C, ny): C := B * A
dsymmR(A, B, ny, nx) ==
    [x \in 0 .. nx * ny - 1 |->
        LET i == x \div ny
            j == x % ny
        IN  SumTo([q \in 0 .. nx - 1 |-> B[q * ny + j] * SymUpper(A, q, i)], nx)]

\* BLAS dsymm('L','U', ny, nx, 1.0, A, ny, B, ny, 0.0, C, ny): C := A * B
dsymmL(A, B, ny, nx) ==
    [x \in 0 .. nx * ny - 1 |->
        LET i == x \div ny
            j == x % ny
        IN  SumTo([q \in 0 .. ny - 1 |-> SymUpper(A, j, q) * B[i * ny + q]], ny)]

\* dtrmm reading the lower triangle of A in the right-multiply
dtrmmRUAsLower(A, B, ny, nx) ==
    [x \in 0 .. nx * ny - 1 |->
        LET i == x \div ny
            j == x % ny
        IN  SumTo([q \in 0 .. nx - 1 |->
                     IF q >= i THEN B[q * ny + j] * A[<<q, i>>] ELSE 0], nx)]

\* BLAS dtrmm('R','U','N','N', ny, nx, 1.0, A, nx, B, ny): B := B * A, A upper
\* triangular (entries below the diagonal are not referenced)
dtrmmRU(A, B, ny, nx) ==
    [x \in 0 .. nx * ny - 1 |->
        LET i == x \div ny
            j == x % ny
        IN  SumTo([q \in 0 .. nx - 1 |->
                     IF q <= i THEN B[q * ny + j] * A[<<q, i>>] ELSE 0], nx)]

\* BLAS dtrmm('L','L','N','N', ny, nx, 1.0, A, ny, B, ny): B := A * B, A lower
\* triangular (entries above the diagonal are not referenced)
dtrmmLL(A, B, ny, nx) ==
    [x \in 0 .. nx * ny - 1 |->
        LET i == x \div ny
            j == x % ny
        IN  SumTo([q \in 0 .. ny - 1 |->
                     IF q <= j THEN A[<<j, q>>] * B[i * ny + q] ELSE 0], ny)]

\* Helpers MatMul: the elementwise product p * A[shifted] * B, where A is
\* taken one column back (offset_i) or one row back (offset_j); zero where
\* the shifted sample lies outside the block
MatMul(A, B, ny, nx, offset_i, offset_j, p) ==
    [x \in 0 .. nx * ny - 1 |->
        LET i == x \div ny
            j == x % ny
        IN  IF offset_i THEN (IF i = 0 THEN 0 ELSE p * A[x - ny] * B[x])
            ELSE IF offset_j THEN (IF j = 0 THEN 0 ELSE p * A[x - 1] * B[x])
            ELSE p * A[x] * B[x]]

\* the four coefficient matrices of a worker
SetMatrixCoefficients(p, ny, nx) ==
    [dVel_dx_2_coeffs |-> GenSymm((0 - 2) * p.c * p.idx * p.idx, p.c * p.idx * p.idx, nx),
     dVel_dy_2_coeffs |-> GenSymm((0 - 2) * p.c * p.idy * p.idy, p.c * p.idy * p.idy, ny),
     dVel_dx_coeffs   |-> GenTrmm(p.ax * p.idx, 0 - p.ax * p.idx, nx, TRUE),
     dVel_dy_coeffs   |-> GenTrmm(p.ay * p.idy, 0 - p.ay * p.idy, ny, FALSE)]

(***************************************************************************)
(* Boundary corrections.  A halo record h has the fields up, down, left,   *)
(* right (the buffers upVel, downVel, leftVel, rightVel).                  *)
(***************************************************************************)
\* UpdateBoundsLinear without the corrections at the right and bottom edges
UpdateBoundsLinearNoRightDown(d, h, p, ny, nx) ==
    LET Left(x)  == x \div ny = 0
        Top(x)   == x % ny = 0
    IN  [dVel_dx_2 |-> [x \in 0 .. nx * ny - 1 |->
                          d.dVel_dx_2[x]
                          + (IF Left(x) THEN p.c * p.idx * p.idx * h.left[x % ny] ELSE 0)],
         dVel_dx   |-> [x \in 0 .. nx * ny - 1 |->
                          d.dVel_dx[x]
                          - (IF Left(x) THEN p.ax * p.idx * h.left[x % ny] ELSE 0)],
         dVel_dy_2 |-> [x \in 0 .. nx * ny - 1 |->
                          d.dVel_dy_2[x]
                          + (IF Top(x) THEN p.c * p.idy * p.idy * h.up[x \div ny] ELSE 0)],
         dVel_dy   |-> [x \in 0 .. nx * ny - 1 |->
                          d.dVel_dy[x]
                          - (IF Top(x) THEN p.ay * p.idy * h.up[x \div ny] ELSE 0)]]

\* UpdateBoundsLinear that also corrects the first derivatives at the right
\* and bottom edges
UpdateBoundsLinearAllEdges(d, h, p, ny, nx) ==
    LET Left(x)  == x \div ny = 0
        Right(x) == x \div ny = nx - 1
        Top(x)   == x % ny = 0
        Bot(x)   == x % ny = ny - 1
    IN  [dVel_dx_2 |-> [x \in 0 .. nx * ny - 1 |->
                          d.dVel_dx_2[x]
                          + (IF Left(x) THEN p.c * p.idx * p.idx * h.left[x % ny] ELSE 0)
                          + (IF Right(x) THEN p.c * p.idx * p.idx * h.right[x % ny] ELSE 0)],
         dVel_dx   |-> [x \in 0 .. nx * ny - 1 |->
                          d.dVel_dx[x]
                          - (IF Left(x) THEN p.ax * p.idx * h.left[x % ny] ELSE 0)
                          - (IF Right(x) THEN p.ax * p.idx * h.right[x % ny] ELSE 0)],
         dVel_dy_2 |-> [x \in 0 .. nx * ny - 1 |->
                          d.dVel_dy_2[x]
                          + (IF Top(x) THEN p.c * p.idy * p.idy * h.up[x \div ny] ELSE 0)
                          + (IF Bot(x) THEN p.c * p.idy * p.idy * h.down[x \div ny] ELSE 0)],
         dVel_dy   |-> [x \in 0 .. nx * ny - 1 |->
                          d.dVel_dy[x]
                          - (IF Top(x) THEN p.ay * p.idy * h.up[x \div ny] ELSE 0)
                          - (IF Bot(x) THEN p.ay * p.idy * h.down[x \div ny] ELSE 0)]]

\* UpdateBoundsLinear: the four derivative arrays d (a record) after the
\* halo values have been folded in at the block's edges
UpdateBoundsLinear(d, h, p, ny, nx) ==
    LET Left(x)  == x \div ny = 0
        Right(x) == x \div ny = nx - 1
        Top(x)   == x % ny = 0
        Bot(x)   == x % ny = ny - 1
    IN  [dVel_dx_2 |-> [x \in 0 .. nx * ny - 1 |->
                          d.dVel_dx_2[x]
                          + (IF Left(x) THEN p.c * p.idx * p.idx * h.left[x % ny] ELSE 0)
                          + (IF Right(x) THEN p.c * p.idx * p.idx * h.right[x % ny] ELSE 0)],
         dVel_dx   |-> [x \in 0 .. nx * ny - 1 |->
                          d.dVel_dx[x]
                          - (IF Left(x) THEN p.ax * p.idx * h.left[x % ny] ELSE 0)],
         dVel_dy_2 |-> [x \in 0 .. nx * ny - 1 |->
                          d.dVel_dy_2[x]
                          + (IF Top(x) THEN p.c * p.idy * p.idy * h.up[x \div ny] ELSE 0)
                          + (IF Bot(x) THEN p.c * p.idy * p.idy * h.down[x \div ny] ELSE 0)],
         dVel_dy   |-> [x \in 0 .. nx * ny - 1 |->
                          d.dVel_dy[x]
                          - (IF Top(x) THEN p.ay * p.idy * h.up[x \div ny] ELSE 0)]]

\* UpdateBoundsNonLinear that leaves the shifted products as MatMul made
\* them, zero at the top and left edges
UpdateBoundsNonLinearSkipped(Vel, Other, m, h, p, SELECT_U, ny, nx) == m

\* UpdateBoundsNonLinear with the two target arrays exchanged
UpdateBoundsNonLinearSwapped(Vel, Other, m, h, p, SELECT_U, ny, nx) ==
    LET Left(x) == x \div ny = 0
        Top(x)  == x % ny = 0
    IN  IF SELECT_U
        THEN [Vel_Vel_Minus_1 |-> [x \in 0 .. nx * ny - 1 |->
                 IF Top(x) THEN p.b * p.idy * h.up[x \div ny] * Vel[x]
                 ELSE m.Vel_Vel_Minus_1[x]],
              Vel_Other_Minus_1 |-> [x \in 0 .. nx * ny - 1 |->
                 IF Left(x) THEN p.b * p.idx * h.left[x % ny] * Other[x]
                 ELSE m.Vel_Other_Minus_1[x]]]
        ELSE [Vel_Other_Minus_1 |-> [x \in 0 .. nx * ny - 1 |->
                 IF Top(x) THEN p.b * p.idy * h.up[x \div ny] * Other[x]
                 ELSE m.Vel_Other_Minus_1[x]],
              Vel_Vel_Minus_1 |-> [x \in 0 .. nx * ny - 1 |->
                 IF Left(x) THEN p.b * p.idx * h.left[x % ny] * Vel[x]
                 ELSE m.Vel_Vel_Minus_1[x]]]

\* UpdateBoundsNonLinear: the two shifted-product arrays m (a record) after
\* the entries at the top and left edges have been set from the halos
UpdateBoundsNonLinear(Vel, Other, m, h, p, SELECT_U, ny, nx) ==
    LET Left(x) == x \div ny = 0
        Top(x)  == x % ny = 0
    IN  IF SELECT_U
        THEN [Vel_Other_Minus_1 |-> [x \in 0 .. nx * ny - 1 |->
                 IF Top(x) THEN p.b * p.idy * h.up[x \div ny] * Other[x]
                 ELSE m.Vel_Other_Minus_1[x]],
              Vel_Vel_Minus_1 |-> [x \in 0 .. nx * ny - 1 |->
                 IF Left(x) THEN p.b * p.idx * h.left[x % ny] * Vel[x]
                 ELSE m.Vel_Vel_Minus_1[x]]]
        ELSE [Vel_Vel_Minus_1 |-> [x \in 0 .. nx * ny - 1 |->
                 IF Top(x) THEN p.b * p.idy * h.up[x \div ny] * Vel[x]
                 ELSE m.Vel_Vel_Minus_1[x]],
              Vel_Other_Minus_1 |-> [x \in 0 .. nx * ny - 1 |->
                 IF Left(x) THEN p.b * p.idx * h.left[x % ny] * Other[x]
                 ELSE m.Vel_Other_Minus_1[x]]]

\* NextVelocityState after SetCaches has returned: the buffer NextVel
\* computed from Vel, Other, the coefficient matrices cf and the halos h
NextVelocityState(Vel, Other, cf, h, p, SELECT_U, ny, nx) ==
    LET d0 == [dVel_dx_2 |-> dsymmR(cf.dVel_dx_2_coeffs, Vel, ny, nx),
               dVel_dy_2 |-> dsymmL(cf.dVel_dy_2_coeffs, Vel, ny, nx),
               dVel_dx   |-> dtrmmRU(cf.dVel_dx_coeffs, Vel, ny, nx),
               dVel_dy   |-> dtrmmLL(cf.dVel_dy_coeffs, Vel, ny, nx)]
        Vel_Vel   == IF SELECT_U
                     THEN MatMul(Vel, Vel, ny, nx, FALSE, FALSE, p.b * p.idx)
                     ELSE MatMul(Vel, Vel, ny, nx, FALSE, FALSE, p.b * p.idy)
        Vel_Other == IF SELECT_U
                     THEN MatMul(Vel, Other, ny, nx, FALSE, FALSE, p.b * p.idy)
                     ELSE MatMul(Vel, Other, ny, nx, FALSE, FALSE, p.b * p.idx)
        m0 == IF SELECT_U
              THEN [Vel_Vel_Minus_1   |-> MatMul(Vel, Vel, ny, nx, TRUE, FALSE, p.b * p.idx),
                    Vel_Other_Minus_1 |-> MatMul(Vel, Other, ny, nx, FALSE, TRUE, p.b * p.idy)]
              ELSE [Vel_Vel_Minus_1   |-> MatMul(Vel, Vel, ny, nx, FALSE, TRUE, p.b * p.idy),
                    Vel_Other_Minus_1 |-> MatMul(Vel, Other, ny, nx, TRUE, FALSE, p.b * p.idx)]
        d == UpdateBoundsLinear(d0, h, p, ny, nx)
        m == UpdateBoundsNonLinear(Vel, Other, m0, h, p, SELECT_U, ny, nx)
    IN  [x \in 0 .. nx * ny - 1 |->
            (d.dVel_dx_2[x] + d.dVel_dy_2[x] - d.dVel_dx[x] - d.dVel_dy[x]
             - (Vel_Vel[x] + Vel_Other[x] - m.Vel_Vel_Minus_1[x] - m.Vel_Other_Minus_1[x]))
            * p.dt + Vel[x]]

(***************************************************************************)
(* The halo exchange of SetCaches: four MPI_Sendrecv calls, numbered 1..4. *)
(***************************************************************************)
\* the rank the x-th MPI_Sendrecv of SetCaches sends to
SendTo(w, x) ==
    CASE x = 1 -> GetDown(w)
      [] x = 2 -> GetUp(w)
      [] x = 3 -> GetRight(w)
      [] x = 4 -> GetLeft(w)

\* an exchange whose left-right receive names the up neighbour as source
RecvFromWrongAxis(w, x) ==
    CASE x = 1 -> GetUp(w)
      [] x = 2 -> GetDown(w)
      [] x = 3 -> GetUp(w)
      [] x = 4 -> GetRight(w)

\* the rank the x-th MPI_Sendrecv of SetCaches receives from
RecvFrom(w, x) ==
    CASE x = 1 -> GetUp(w)
      [] x = 2 -> GetDown(w)
      [] x = 3 -> GetLeft(w)
      [] x = 4 -> GetRight(w)

\* the message tag (the variable flag) of the x-th MPI_Sendrecv
Tag(x) == IF x <= 2 THEN 0 ELSE 1

\* the edge vectors SetCaches copies out of Vel before exchanging
myUpVel(Vel) == [i \in 0 .. Nxr - 1 |-> Vel[i * Nyr]]
myDownVel(Vel) == [i \in 0 .. Nxr - 1 |-> Vel[i * Nyr + (Nyr - 1)]]
myLeftVel(Vel) == [j \in 0 .. Nyr - 1 |-> Vel[j]]
myRightVel(Vel) == [j \in 0 .. Nyr - 1 |-> Vel[(Nxr - 1) * Nyr + j]]

\* send buffers with the edges of each axis swapped
SendBufSwapped(Vel, x) ==
    CASE x = 1 -> myUpVel(Vel)
      [] x = 2 -> myDownVel(Vel)
      [] x = 3 -> myLeftVel(Vel)
      [] x = 4 -> myRightVel(Vel)

\* the send buffer of the x-th MPI_Sendrecv
SendBuf(Vel, x) ==
    CASE x = 1 -> myDownVel(Vel)
      [] x = 2 -> myUpVel(Vel)
      [] x = 3 -> myRightVel(Vel)
      [] x = 4 -> myLeftVel(Vel)

\* the field NextVelocityState works on (Vel) and its companion (Other)
VelOf(w, SELECT_U) == IF SELECT_U THEN U[w] ELSE V[w]
OtherOf(w, SELECT_U) == IF SELECT_U THEN V[w] ELSE U[w]

\* the halo buffers of worker w as one record
Halo(w) == [up |-> upVel[w], down |-> downVel[w],
            left |-> leftVel[w], right |-> rightVel[w]]

\* positions of a worker
At(w, a) == pc[w].at = a
Pos(a, sel, x) == [at |-> a, sel |-> sel, x |-> x]

\* index of the first message with tag t in the queue q, or 0
RECURSIVE FirstTagged(_, _, _)
FirstTagged(q, t, n) ==
    IF n > Len(q) THEN 0
    ELSE IF q[n].tag = t THEN n
    ELSE FirstTagged(q, t, n + 1)

\* a library that leaves a received message in the queue
WithoutNothing(q, n) == q

\* the queue q without its n-th message
Without(q, n) == [x \in 1 .. Len(q) - 1 |-> IF x < n THEN q[x] ELSE q[x + 1]]

(***************************************************************************)
(* Actions of a worker.                                                    *)
(***************************************************************************)
\* a loop condition that lets the loop run once more
LoopContinuesOffByOne(kk) == kk < nt

\* the loop condition of SetIntegratedVelocity with loop counter kk
LoopContinues(kk) == kk < nt - 1

\* SetIntegratedVelocity up to the loop: the operators are built
BuildOperators(w) ==
    /\ At(w, "init")
    /\ coeffs' = [coeffs EXCEPT ![w] = SetMatrixCoefficients(par, Nyr, Nxr)]
    /\ pc' = [pc EXCEPT ![w] = IF LoopContinues(k[w]) THEN Pos("post", TRUE, 1)
                                ELSE Pos("energy", TRUE, 0)]
    /\ cnt' = [cnt EXCEPT ![w].build = @ + 1]
    /\ UNCHANGED <<outputVars, serialVars, historyVars, modelVars>>
    /\ UNCHANGED <<Px, Py, nt, par, eager, U0, V0, single, U, V, NextU, NextV, upVel, downVel,
                   leftVel, rightVel, k, got, chan, contrib, E>>

\* MPI_Sendrecv is entered: the send is handed to the library and the
\* receive is posted.  A message is its tag and its data; sel, level and call
\* record which MPI_Sendrecv sent it and take no part in the matching
SendrecvPost(w) ==
    /\ At(w, "post")
    /\ LET x == pc[w].x
           dst == SendTo(w, x)
           msg == [tag |-> Tag(x), data |-> SendBuf(VelOf(w, pc[w].sel), x),
                   sel |-> pc[w].sel, level |-> k[w], call |-> x]
       IN  chan' = IF dst < 0 THEN chan
                   ELSE [chan EXCEPT ![<<w, dst>>] = Append(@, msg)]
    /\ got' = [got EXCEPT ![w] = IF pc[w].x = 1 THEN {} ELSE @]
    /\ pc' = [pc EXCEPT ![w].at = "wait"]
    /\ cnt' = [cnt EXCEPT ![w].sendrecv[pc[w].x] = @ + 1]
    /\ UNCHANGED <<outputVars, serialVars, historyVars, modelVars>>
    /\ UNCHANGED <<Px, Py, nt, par, eager, U0, V0, single, U, V, NextU, NextV, upVel, downVel,
                   leftVel, rightVel, coeffs, k, contrib, E>>

\* the library matches the posted receive with the first message of that
\* tag from the source and copies it into the receive buffer
SendrecvMatch(w) ==
    /\ At(w, "wait")
    /\ pc[w].x \notin got[w]
    /\ LET x == pc[w].x
           src == RecvFrom(w, x)
       IN  /\ src >= 0
           /\ LET q == chan[<<src, w>>]
                  n == FirstTagged(q, Tag(x), 1)
              IN  /\ n > 0
                  /\ chan' = [chan EXCEPT ![<<src, w>>] = Without(q, n)]
                  /\ upVel' = IF x = 1 THEN [upVel EXCEPT ![w] = q[n].data] ELSE upVel
                  /\ downVel' = IF x = 2 THEN [downVel EXCEPT ![w] = q[n].data] ELSE downVel
                  /\ leftVel' = IF x = 3 THEN [leftVel EXCEPT ![w] = q[n].data] ELSE leftVel
                  /\ rightVel' = IF x = 4 THEN [rightVel EXCEPT ![w] = q[n].data] ELSE rightVel
    /\ got' = [got EXCEPT ![w] = @ \cup {pc[w].x}]
    /\ UNCHANGED cnt
    /\ UNCHANGED <<outputVars, serialVars, historyVars, modelVars>>
    /\ UNCHANGED <<Px, Py, nt, par, eager, U0, V0, single, U, V, NextU, NextV, coeffs, pc, k,
                   contrib, E>>

\* a receive half that never waits for its message
RecvCompleteNoWait(w) == TRUE

\* the receive half of the pending MPI_Sendrecv is complete
RecvComplete(w) == RecvFrom(w, pc[w].x) < 0 \/ pc[w].x \in got[w]

\* the send half of the pending MPI_Sendrecv is complete: at once to
\* MPI_PROC_NULL or when the library buffers, else once the message is taken
SendComplete(w) ==
    LET dst == SendTo(w, pc[w].x)
    IN  IF dst < 0 THEN TRUE ELSE (eager \/ chan[<<w, dst>>] = <<>>)

\* a SetCaches that omits the left/right exchanges
AfterSendrecvUpDownOnly(p) ==
    IF p.x < 2 THEN Pos("post", p.sel, p.x + 1) ELSE Pos("zero", p.sel, 0)

\* the position after the MPI_Sendrecv at position p has returned: the next
\* of the four calls, or "Handle boundaries"
AfterSendrecv(p) ==
    IF p.x < 4 THEN Pos("post", p.sel, p.x + 1) ELSE Pos("zero", p.sel, 0)

\* MPI_Sendrecv returns
SendrecvReturn(w) ==
    /\ At(w, "wait")
    /\ RecvComplete(w)
    /\ SendComplete(w)
    /\ pc' = [pc EXCEPT ![w] = AfterSendrecv(pc[w])]
    /\ UNCHANGED cnt
    /\ UNCHANGED <<outputVars, serialVars, historyVars, modelVars>>
    /\ UNCHANGED <<Px, Py, nt, par, eager, U0, V0, single, U, V, NextU, NextV, upVel, downVel,
                   leftVel, rightVel, coeffs, k, got, chan, contrib, E>>

\* "Handle boundaries" that leaves every buffer as the exchange left it
HandleBoundaryKeep(nb, buf, n) == buf

\* "Handle boundaries" that tests the rank with the wrong sign
HandleBoundaryWrongSign(nb, buf, n) == IF nb > 0 THEN Zeroes(n) ELSE buf

\* a halo buffer after "Handle boundaries": zeroed when the neighbour is missing
HandleBoundary(nb, buf, n) == IF nb < 0 THEN Zeroes(n) ELSE buf

\* the end of SetCaches: the buffers of missing neighbours are zeroed
SetCachesEnd(w) ==
    /\ At(w, "zero")
    /\ upVel' = [upVel EXCEPT ![w] = HandleBoundary(GetUp(w), @, Nxr)]
    /\ downVel' = [downVel EXCEPT ![w] = HandleBoundary(GetDown(w), @, Nxr)]
    /\ leftVel' = [leftVel EXCEPT ![w] = HandleBoundary(GetLeft(w), @, Nyr)]
    /\ rightVel' = [rightVel EXCEPT ![w] = HandleBoundary(GetRight(w), @, Nyr)]
    /\ pc' = [pc EXCEPT ![w].at = "calc"]
    /\ UNCHANGED cnt
    /\ UNCHANGED <<outputVars, serialVars, historyVars, modelVars>>
    /\ UNCHANGED <<Px, Py, nt, par, eager, U0, V0, single, U, V, NextU, NextV, coeffs, k, got,
                   chan, contrib, E>>

\* a companion field that is the freshly computed U while solving for V
OtherArgSequential(w, SELECT_U) == IF SELECT_U THEN V[w] ELSE NextU[w]

\* the companion field NextVelocityState reads while solving for a component
OtherArg(w, SELECT_U) == OtherOf(w, SELECT_U)

\* a dtrmm that leaves its product in the x operator
CoeffsAfterInPlace(cf, Vel) ==
    [cf EXCEPT !.dVel_dx_coeffs =
        [rc \in DOMAIN cf.dVel_dx_coeffs |->
            dtrmmRU(cf.dVel_dx_coeffs, Vel, Nyr, Nxr)[rc[2] * Nyr + rc[1]]]]

\* the coefficient arrays after NextVelocityState: they are the input matrix A
\* of the dsymm and dtrmm calls, which write C and B
CoeffsAfter(cf, Vel) == cf

\* a NextVelocityState whose dtrmm works on Vel itself
VelAfterInPlace(Vel, cf) == dtrmmRU(cf.dVel_dx_coeffs, Vel, Nyr, Nxr)

\* the array Vel after NextVelocityState: dsymm reads it, dcopy copies it into
\* dVel_dx and dVel_dy, and dtrmm works on the copies
VelAfter(Vel, cf) == Vel

\* the rest of NextVelocityState: derivatives, boundary correction, combination
Evaluate(w) ==
    /\ At(w, "calc")
    /\ LET sel == pc[w].sel
           nv  == NextVelocityState(VelOf(w, sel), OtherArg(w, sel), coeffs[w],
                                    Halo(w), par, sel, Nyr, Nxr)
       IN  /\ NextU' = IF sel THEN [NextU EXCEPT ![w] = nv] ELSE NextU
           /\ NextV' = IF sel THEN NextV ELSE [NextV EXCEPT ![w] = nv]
           /\ U' = IF sel THEN [U EXCEPT ![w] = VelAfter(@, coeffs[w])] ELSE U
           /\ V' = IF sel THEN V ELSE [V EXCEPT ![w] = VelAfter(@, coeffs[w])]
           /\ coeffs' = [coeffs EXCEPT ![w] = CoeffsAfter(@, VelOf(w, sel))]
           /\ pc' = [pc EXCEPT ![w] = IF sel THEN Pos("post", FALSE, 1)
                                       ELSE Pos("copy", TRUE, 0)]
    /\ cnt' = [cnt EXCEPT ![w].eval[pc[w].sel] = @ + 1]
    /\ UNCHANGED <<outputVars, serialVars, historyVars, modelVars>>
    /\ UNCHANGED <<Px, Py, nt, par, eager, U0, V0, single, upVel, downVel, leftVel,
                   rightVel, k, got, chan, contrib, E>>

\* CopyAndDelete and the loop increment of SetIntegratedVelocity
CopyAndDelete(w) ==
    /\ At(w, "copy")
    /\ U' = [U EXCEPT ![w] = NextU[w]]
    /\ V' = [V EXCEPT ![w] = NextV[w]]
    /\ NextU' = [NextU EXCEPT ![w] = <<>>]
    /\ NextV' = [NextV EXCEPT ![w] = <<>>]
    /\ k' = [k EXCEPT ![w] = @ + 1]
    /\ pc' = [pc EXCEPT ![w] = IF LoopContinues(k[w] + 1) THEN Pos("post", TRUE, 1)
                                ELSE Pos("energy", TRUE, 0)]
    /\ cnt' = [cnt EXCEPT ![w].copy = @ + 1]
    /\ UNCHANGED <<outputVars, serialVars, historyVars, modelVars>>
    /\ UNCHANGED <<Px, Py, nt, par, eager, U0, V0, single, upVel, downVel, leftVel, rightVel,
                   coeffs, got, chan, contrib, E>>

\* ddot: the dot product of two vectors of length n
ddot(n, A, B) == SumTo([x \in 0 .. n - 1 |-> A[x] * B[x]], n)

\* the local energy of CalculateEnergyState, in units of 0.5*dx*dy
LocalEnergy(Ui, Vi) == ddot(Nyr * Nxr, Ui, Ui) + ddot(Nyr * Nxr, Vi, Vi)

\* CalculateEnergyState up to MPI_Allreduce: the local value is handed in
EnergyContribute(w) ==
    /\ At(w, "energy")
    /\ contrib' = [contrib EXCEPT ![w] = <<LocalEnergy(U[w], V[w])>>]
    /\ pc' = [pc EXCEPT ![w].at = "reduce"]
    /\ cnt' = [cnt EXCEPT ![w].allreduce = @ + 1]
    /\ UNCHANGED <<outputVars, serialVars, historyVars, modelVars>>
    /\ UNCHANGED <<Px, Py, nt, par, eager, U0, V0, single, U, V, NextU, NextV, upVel, downVel,
                   leftVel, rightVel, coeffs, k, got, chan, E>>

\* a reduction that returns the caller's own contribution
AllreduceLocal(w) == contrib[w][1]

\* the value MPI_Allreduce with MPI_SUM returns on worker w
Allreduce(w) == SumTo([x \in Procs |-> contrib[x][1]], Px * Py)

\* MPI_Allreduce returns once every worker has handed in; SetEnergy stores it
EnergyReturn(w) ==
    /\ At(w, "reduce")
    /\ \A x \in Procs : contrib[x] # <<>>
    /\ E' = [E EXCEPT ![w] = Allreduce(w)]
    /\ pc' = [pc EXCEPT ![w].at = "done"]
    /\ UNCHANGED cnt
    /\ UNCHANGED <<outputVars, serialVars, historyVars, modelVars>>
    /\ UNCHANGED <<Px, Py, nt, par, eager, U0, V0, single, U, V, NextU, NextV, upVel, downVel,
                   leftVel, rightVel, coeffs, k, got, chan, contrib>>

(***************************************************************************)
(* The run of a single worker (Px = Py = 1) that owns the whole interior   *)
(* grid: SetCaches zeroes all four halo buffers, so every step is          *)
(* NextVelocityState on the global field with all-zero halos.              *)
(***************************************************************************)
ZeroHalo == [up |-> Zeroes(GX), down |-> Zeroes(GX),
             left |-> Zeroes(GY), right |-> Zeroes(GY)]

\* one step of the single worker: both components from the same level
SingleStep(f) ==
    LET cf == SetMatrixCoefficients(par, GY, GX)
    IN  [u |-> NextVelocityState(f.u, f.v, cf, ZeroHalo, par, TRUE, GY, GX),
         v |-> NextVelocityState(f.v, f.u, cf, ZeroHalo, par, FALSE, GY, GX)]

RECURSIVE SingleRun(_)
\* the global fields of the single worker after n steps
SingleRun(n) == IF n = 0 THEN [u |-> U0, v |-> V0] ELSE SingleStep(SingleRun(n - 1))

(***************************************************************************)
(* Inputs of a run.                                                        *)
(***************************************************************************)
\* initial global fields
FieldA == [x \in 0 .. GX * GY - 1 |-> (x % 3) + 1]
FieldB == [x \in 0 .. GX * GY - 1 |-> ((2 * x + 1) % 3) - 1]
FieldC == [x \in 0 .. GX * GY - 1 |-> IF x % 2 = 0 THEN 1 ELSE 0]
FieldD == [x \in 0 .. GX * GY - 1 |-> (x % 3) - 1]
FieldE == [x \in 0 .. GX * GY - 1 |-> IF x % 3 = 0 THEN 1 ELSE 0]

\* run parameters: diffusion and linear advection with dx # dy; pure
\* nonlinear advection with dx # dy; every term active; every term active
\* with dx # dy
ParamsLin == [ax |-> 1, ay |-> 2, b |-> 0, c |-> 1, idx |-> 2, idy |-> 1, dt |-> 1]
ParamsAdv == [ax |-> 0, ay |-> 0, b |-> 1, c |-> 0, idx |-> 1, idy |-> 2, dt |-> 1]
ParamsMix == [ax |-> 1, ay |-> 2, b |-> 1, c |-> 1, idx |-> 1, idy |-> 1, dt |-> 1]
ParamsAll == [ax |-> 1, ay |-> 2, b |-> 1, c |-> 1, idx |-> 2, idy |-> 1, dt |-> 1]

\* the inputs of a run: the parameters, the initial fields U and V, the
\* value junk that the uninitialised buffers happen to hold, and whether
\* the MPI library buffers sends
Inputs ==
    {[par |-> ParamsLin, u |-> FieldA, v |-> FieldB, junk |-> 7, eager |-> TRUE],
     [par |-> ParamsAdv, u |-> FieldC, v |-> FieldD, junk |-> 0, eager |-> FALSE],
     [par |-> ParamsMix, u |-> FieldE, v |-> FieldE, junk |-> 7, eager |-> FALSE],
     [par |-> ParamsAll, u |-> Zeroes(GX * GY), v |-> Zeroes(GX * GY), junk |-> 7,
      eager |-> TRUE]}

\* a coefficient record whose matrices hold the value v everywhere
RawCoeffs(v) ==
    [dVel_dx_2_coeffs |-> [rc \in (0 .. Nxr - 1) \X (0 .. Nxr - 1) |-> v],
     dVel_dy_2_coeffs |-> [rc \in (0 .. Nyr - 1) \X (0 .. Nyr - 1) |-> v],
     dVel_dx_coeffs   |-> [rc \in (0 .. Nxr - 1) \X (0 .. Nxr - 1) |-> v],
     dVel_dy_coeffs   |-> [rc \in (0 .. Nyr - 1) \X (0 .. Nyr - 1) |-> v]]

\* the counters of a worker that has not entered any operation
NoCalls ==
    [build |-> 0, sendrecv |-> [x \in 1 .. 4 |-> 0],
     eval |-> [sel \in BOOLEAN |-> 0], copy |-> 0, allreduce |-> 0]

\* WriteVelocityFile has not been called
OutputIdle ==
    /\ M = [w \in Procs |-> <<>>]
    /\ gathered = [w \in Procs |-> <<>>]
    /\ dataTxt = <<>>

\* the serial solver is not run
SerialIdle ==
    /\ local = <<>>
    /\ spc = "idle"
    /\ sk = 0

\* the history-keeping solver is not run
HistoryIdle ==
    /\ histNx = 0 /\ histNy = 0
    /\ hpc = "idle"
    /\ hi = 0 /\ hj = 0
    /\ histU0 = <<>>
    /\ wild = {}

\* the Model members of a solver run: not part of the solver's state
ModelIdle ==
    /\ mpc = "idle"
    /\ argc = 8
    /\ argv = <<>>
    /\ mp = <<>>
    /\ numerics = <<>>
    /\ out = <<>>

\* the state on entry to SetIntegratedVelocity.  The constructor leaves the
\* halo buffers, the coefficient arrays and E as allocated (junk).  U and V
\* hold what SetInitialVelocity wrote, the same values in both (FieldE, the
\* zero field), or, SetIntegratedVelocity reading them whatever they hold,
\* different values (FieldA with FieldB, FieldC with FieldD).
InitWith(meshes, levels) ==
    /\ \E m \in meshes : Px = m[1] /\ Py = m[2]
    /\ nt \in levels
    /\ \E in \in Inputs :
          /\ par = in.par
          /\ eager = in.eager
          /\ U0 = in.u
          /\ V0 = in.v
          /\ upVel = [w \in Procs |-> Fill(Nxr, in.junk)]
          /\ downVel = [w \in Procs |-> Fill(Nxr, in.junk)]
          /\ leftVel = [w \in Procs |-> Fill(Nyr, in.junk)]
          /\ rightVel = [w \in Procs |-> Fill(Nyr, in.junk)]
          /\ coeffs = [w \in Procs |-> RawCoeffs(in.junk)]
          /\ E = [w \in Procs |-> in.junk]
    /\ single = [n \in 0 .. Nt - 1 |-> SingleRun(n)]
    /\ U = [w \in Procs |-> Block(U0, w)]
    /\ V = [w \in Procs |-> Block(V0, w)]
    /\ NextU = [w \in Procs |-> <<>>]
    /\ NextV = [w \in Procs |-> <<>>]
    /\ pc = [w \in Procs |-> Pos("init", TRUE, 0)]
    /\ k = [w \in Procs |-> 0]
    /\ got = [w \in Procs |-> {}]
    /\ chan = [pr \in Procs \X Procs |-> <<>>]
    /\ contrib = [w \in Procs |-> <<>>]
    /\ cnt = [w \in Procs |-> NoCalls]
    /\ OutputIdle
    /\ SerialIdle
    /\ HistoryIdle
    /\ ModelIdle

\* a run of Nt time levels on any mesh of the model
Init == InitWith(Meshes, {Nt})

Next ==
    \/ \E w \in Procs : BuildOperators(w)
    \/ \E w \in Procs : SendrecvPost(w)
    \/ \E w \in Procs : SendrecvMatch(w)
    \/ \E w \in Procs : SendrecvReturn(w)
    \/ \E w \in Procs : SetCachesEnd(w)
    \/ \E w \in Procs : Evaluate(w)
    \/ \E w \in Procs : CopyAndDelete(w)
    \/ \E w \in Procs : EnergyContribute(w)
    \/ \E w \in Procs : EnergyReturn(w)

Spec == Init /\ [][Next]_vars

\* every worker process keeps running and the library keeps matching: a
\* step that stays possible is eventually taken
FairSpec == Spec /\ WF_vars(Next)

(***************************************************************************)
(* WriteVelocityFile: every worker opens data.txt, and for U and then V    *)
(* the blocks are gathered on rank 0, reordered into the row-major global  *)
(* matrix M and written by rank 0.  The gather layout (displs, recvcount   *)
(* and the rank maps) is Model2P's.  A written field is recorded as the    *)
(* values handed to the stream, row by row; the formatting to 4            *)
(* significant digits is not modelled.                                     *)
(***************************************************************************)
displs(kk) == kk * Nxr * Nyr
recvcount(kk) == Nxr * Nyr
rankNxrMap(kk) == Nxr
rankNyrMap(kk) == Nyr
rankDisplsXMap(kk) == GetDisplX(kk)
rankDisplsYMap(kk) == GetDisplY(kk)

\* the cells <<row, column>> of M
Cells == (0 .. GY - 1) \X (0 .. GX - 1)

\* rank 0 is the root of the gather and the only writer
IsRoot(w) == w = 0

\* the receive buffer of the root after MPI_Gatherv: the send buffer of
\* rank kk lies at displs[kk], recvcount[kk] values long
GlobalVel(bufs) ==
    [g \in 0 .. GX * GY - 1 |->
        LET kk == CHOOSE q \in Procs : displs(q) <= g /\ g < displs(q) + recvcount(q)
        IN  bufs[kk][g - displs(kk)]]

\* the iterations <<kk, i, j>> of the assembly loop, and their order
Writes ==
    {t \in Procs \X (0 .. Nxr - 1) \X (0 .. Nyr - 1) :
        t[2] < rankNxrMap(t[1]) /\ t[3] < rankNyrMap(t[1])}
WriteOrder(t) == (t[1] * Nxr + t[2]) * Nyr + t[3]

\* an assembly that writes M[x][y] instead of M[y][x]
TargetTransposed(t) == <<rankDisplsXMap(t[1]) + t[2], rankDisplsYMap(t[1]) + t[3]>>

\* the cell of M that iteration t assigns: M[loc_displ_y+j][loc_displ_x+i]
Target(t) == <<rankDisplsYMap(t[1]) + t[3], rankDisplsXMap(t[1]) + t[2]>>

\* the value iteration t assigns: globalVel[global_displ+i*loc_Nyr+j]
Source(globalVel, t) == globalVel[displs(t[1]) + t[2] * rankNyrMap(t[1]) + t[3]]

\* M after the assembly loop of the root: a cell keeps the last value
\* assigned to it, or what it held if no iteration assigns it
Assembled(m, globalVel) ==
    [cell \in Cells |->
        LET ws == {t \in Writes : Target(t) = cell}
        IN  IF ws = {} THEN m[cell]
            ELSE Source(globalVel,
                        CHOOSE t \in ws : \A s \in ws : WriteOrder(s) <= WriteOrder(t))]

\* the Ny rows of Nx values WriteOf hands to the stream: 0 on the border,
\* M[j-1][i-1] inside
Rows(m) ==
    [j \in 1 .. GY + 2 |->
        [i \in 1 .. GX + 2 |->
            IF j = 1 \/ i = 1 \/ j = GY + 2 \/ i = GX + 2 THEN 0
            ELSE m[<<j - 2, i - 2>>]]]

\* of.open("data.txt", ios::out | ios::trunc): the file is emptied
OpenFile(w) ==
    /\ pc[w].at = "open"
    /\ dataTxt' = <<>>
    /\ pc' = [pc EXCEPT ![w] = Pos("gather", TRUE, 0)]
    /\ UNCHANGED <<Px, Py, nt, par, eager, U0, V0, single, U, V, NextU, NextV, upVel,
                   downVel, leftVel, rightVel, coeffs, k, got, chan, contrib, E, cnt,
                   M, gathered>>
    /\ UNCHANGED <<serialVars, historyVars, modelVars>>

\* AssembleMatrix enters MPI_Gatherv: a worker other than the root hands in
\* its block
GathervEnter(w) ==
    /\ pc[w].at = "gather"
    /\ gathered' = IF IsRoot(w) THEN gathered
                   ELSE [gathered EXCEPT ![w] = Append(@, VelOf(w, pc[w].sel))]
    /\ pc' = [pc EXCEPT ![w].at = "gathering"]
    /\ UNCHANGED <<Px, Py, nt, par, eager, U0, V0, single, U, V, NextU, NextV, upVel,
                   downVel, leftVel, rightVel, coeffs, k, got, chan, contrib, E, cnt,
                   M, dataTxt>>
    /\ UNCHANGED <<serialVars, historyVars, modelVars>>

\* MPI_Gatherv returns and AssembleMatrix ends.  The root returns once every
\* block is in, and fills M; another worker returns once its block is
\* buffered or received, and leaves M alone
AssembleMatrix(w) ==
    /\ pc[w].at = "gathering"
    /\ IF IsRoot(w)
       THEN /\ \A q \in Procs \ {w} : gathered[q] # <<>>
            /\ LET bufs == [q \in Procs |-> IF q = w THEN VelOf(w, pc[w].sel)
                                            ELSE Head(gathered[q])]
               IN  M' = [M EXCEPT ![w] = Assembled(M[w], GlobalVel(bufs))]
            /\ gathered' = [q \in Procs |-> IF q = w THEN gathered[q]
                                            ELSE Tail(gathered[q])]
       ELSE /\ eager \/ gathered[w] = <<>>
            /\ UNCHANGED <<M, gathered>>
    /\ pc' = [pc EXCEPT ![w].at = "write"]
    /\ UNCHANGED <<Px, Py, nt, par, eager, U0, V0, single, U, V, NextU, NextV, upVel,
                   downVel, leftVel, rightVel, coeffs, k, got, chan, contrib, E, cnt,
                   dataTxt>>
    /\ UNCHANGED <<serialVars, historyVars, modelVars>>

\* a WriteVelocityFile whose WriteOf opens data.txt itself, once per field
AfterWriteOfReopen(sel) ==
    IF sel THEN Pos("open", FALSE, 0) ELSE Pos("close", FALSE, 0)

\* what follows a WriteOf in WriteVelocityFile: WriteOf(V, ...) after
\* WriteOf(U, ...), and of.close() after WriteOf(V, ...)
AfterWriteOf(sel) ==
    IF sel THEN Pos("gather", FALSE, 0) ELSE Pos("close", FALSE, 0)

\* the rest of WriteOf: the root writes the heading and the rows
WriteOf(w) ==
    /\ pc[w].at = "write"
    /\ dataTxt' = IF IsRoot(w)
                  THEN Append(dataTxt, [by |-> w,
                                        id |-> IF pc[w].sel THEN "U" ELSE "V",
                                        rows |-> Rows(M[w])])
                  ELSE dataTxt
    /\ pc' = [pc EXCEPT ![w] = AfterWriteOf(pc[w].sel)]
    /\ UNCHANGED <<Px, Py, nt, par, eager, U0, V0, single, U, V, NextU, NextV, upVel,
                   downVel, leftVel, rightVel, coeffs, k, got, chan, contrib, E, cnt,
                   M, gathered>>
    /\ UNCHANGED <<serialVars, historyVars, modelVars>>

\* of.close(), and M is deleted
CloseFile(w) ==
    /\ pc[w].at = "close"
    /\ pc' = [pc EXCEPT ![w].at = "written"]
    /\ UNCHANGED <<Px, Py, nt, par, eager, U0, V0, single, U, V, NextU, NextV, upVel,
                   downVel, leftVel, rightVel, coeffs, k, got, chan, contrib, E, cnt,
                   M, gathered, dataTxt>>
    /\ UNCHANGED <<serialVars, historyVars, modelVars>>

\* a field whose cells all differ
FieldRamp == [x \in 0 .. GX * GY - 1 |-> x + 1]

\* the fields to write, the value junk that the freshly allocated M happens
\* to hold, and whether the MPI library buffers the blocks handed to
\* MPI_Gatherv.  U and V are equal after a run from SetInitialVelocity; the
\* second input has them differ, WriteVelocityFile writing whatever they hold
OutputInputs ==
    {[u |-> FieldRamp, v |-> FieldRamp, junk |-> 0, eager |-> FALSE],
     [u |-> FieldA, v |-> FieldRamp, junk |-> 7, eager |-> TRUE]}

\* the state on entry to WriteVelocityFile, M allocated
OutputInit ==
    /\ \E m \in Meshes : Px = m[1] /\ Py = m[2]
    /\ nt = Nt
    /\ par = ParamsLin
    /\ single = <<>>
    /\ \E in \in OutputInputs :
          /\ eager = in.eager
          /\ U0 = in.u
          /\ V0 = in.v
          /\ M = [w \in Procs |-> [cell \in Cells |-> in.junk]]
    /\ U = [w \in Procs |-> Block(U0, w)]
    /\ V = [w \in Procs |-> Block(V0, w)]
    /\ NextU = <<>> /\ NextV = <<>>
    /\ upVel = <<>> /\ downVel = <<>> /\ leftVel = <<>> /\ rightVel = <<>>
    /\ coeffs = <<>>
    /\ pc = [w \in Procs |-> Pos("open", TRUE, 0)]
    /\ k = <<>> /\ got = <<>> /\ chan = <<>> /\ contrib = <<>> /\ E = <<>>
    /\ cnt = <<>>
    /\ gathered = [w \in Procs |-> <<>>]
    /\ dataTxt = <<>>
    /\ SerialIdle
    /\ HistoryIdle
    /\ ModelIdle

\* the values a freshly allocated array may hold
JunkValues == {0, 7}

\* WriteVelocityFile is entered after SetEnergy: M is allocated
WriteVelocityFileEnter(w) ==
    /\ pc[w].at = "done"
    /\ \E junk \in JunkValues : M' = [M EXCEPT ![w] = [cell \in Cells |-> junk]]
    /\ pc' = [pc EXCEPT ![w] = Pos("open", TRUE, 0)]
    /\ UNCHANGED <<Px, Py, nt, par, eager, U0, V0, single, U, V, NextU, NextV, upVel,
                   downVel, leftVel, rightVel, coeffs, k, got, chan, contrib, E, cnt,
                   gathered, dataTxt>>
    /\ UNCHANGED <<serialVars, historyVars, modelVars>>

OutputNext ==
    \/ \E w \in Procs : OpenFile(w)
    \/ \E w \in Procs : GathervEnter(w)
    \/ \E w \in Procs : AssembleMatrix(w)
    \/ \E w \in Procs : WriteOf(w)
    \/ \E w \in Procs : CloseFile(w)

OutputSpec == OutputInit /\ [][OutputNext]_vars

(***************************************************************************)
(* The whole run of a worker: SetIntegratedVelocity, SetEnergy and then    *)
(* WriteVelocityFile, for runs of 1 .. Nt levels on the meshes of at most  *)
(* two workers.                                                            *)
(***************************************************************************)
WholeInit == InitWith({m \in Meshes : m[1] * m[2] <= 2}, 1 .. Nt)

WholeNext ==
    \/ \E w \in Procs : BuildOperators(w)
    \/ \E w \in Procs : SendrecvPost(w)
    \/ \E w \in Procs : SendrecvMatch(w)
    \/ \E w \in Procs : SendrecvReturn(w)
    \/ \E w \in Procs : SetCachesEnd(w)
    \/ \E w \in Procs : Evaluate(w)
    \/ \E w \in Procs : CopyAndDelete(w)
    \/ \E w \in Procs : EnergyContribute(w)
    \/ \E w \in Procs : EnergyReturn(w)
    \/ \E w \in Procs : WriteVelocityFileEnter(w)
    \/ \E w \in Procs : OpenFile(w)
    \/ \E w \in Procs : GathervEnter(w)
    \/ \E w \in Procs : AssembleMatrix(w)
    \/ \E w \in Procs : WriteOf(w)
    \/ \E w \in Procs : CloseFile(w)

WholeSpec == WholeInit /\ [][WholeNext]_vars

(***************************************************************************)
(* The serial solver (serSrc): Burgers::SetIntegratedVelocity on the whole *)
(* interior grid, GX columns by GY rows.  Its coefficients are getters of  *)
(* the serial Model: the diagonal and off-diagonal entries of the          *)
(* derivative operators, the first-derivative ones with the sign of the    *)
(* update, and b/dx, b/dy.                                                 *)
(***************************************************************************)
SerialCoefficients(p) ==
    [alpha_dx_2 |-> (0 - 2) * p.c * p.idx * p.idx, beta_dx_2 |-> p.c * p.idx * p.idx,
     alpha_dy_2 |-> (0 - 2) * p.c * p.idy * p.idy, beta_dy_2 |-> p.c * p.idy * p.idy,
     alpha_dx_1 |-> 0 - p.ax * p.idx, beta_dx_1 |-> p.ax * p.idx,
     alpha_dy_1 |-> 0 - p.ay * p.idy, beta_dy_1 |-> p.ay * p.idy,
     bdx |-> p.b * p.idx, bdy |-> p.b * p.idy, dt |-> p.dt]

\* Burgers::SetLinearTerms: the buffer NextVel, element by element; i is the
\* column and kk the row of element curr
SetLinearTerms(Vel, Other, sc, SELECT_U, ny, nx) ==
    [curr \in 0 .. nx * ny - 1 |->
        LET i == curr \div ny
            kk == curr % ny
            x1 == IF i > 0 THEN sc.alpha_dx_1 * Vel[curr] + sc.beta_dx_1 * Vel[curr - ny]
                  ELSE sc.alpha_dx_1 * Vel[curr]
            x2 == IF i > 0 THEN x1 + sc.alpha_dx_2 * Vel[curr] + sc.beta_dx_2 * Vel[curr - ny]
                  ELSE x1 + sc.alpha_dx_2 * Vel[curr]
            x3 == IF i < nx - 1 THEN x2 + sc.beta_dx_2 * Vel[curr + ny] ELSE x2
            y1 == IF kk > 0 THEN x3 + sc.alpha_dy_1 * Vel[curr] + sc.beta_dy_1 * Vel[curr - 1]
                  ELSE x3 + sc.alpha_dy_1 * Vel[curr]
            y2 == IF kk > 0 THEN y1 + sc.alpha_dy_2 * Vel[curr] + sc.beta_dy_2 * Vel[curr - 1]
                  ELSE y1 + sc.alpha_dy_2 * Vel[curr]
            y3 == IF kk < ny - 1 THEN y2 + sc.beta_dy_2 * Vel[curr + 1] ELSE y2
            Vel_Vel == IF SELECT_U THEN sc.bdx * Vel[curr] * Vel[curr]
                       ELSE sc.bdy * Vel[curr] * Vel[curr]
            Vel_Other == IF SELECT_U THEN sc.bdy * Vel[curr] * Other[curr]
                         ELSE sc.bdx * Vel[curr] * Other[curr]
            Vel_Vel_Minus_1 ==
                IF SELECT_U
                THEN (IF i = 0 THEN 0 ELSE sc.bdx * Vel[curr - ny] * Vel[curr])
                ELSE (IF kk = 0 THEN 0 ELSE sc.bdy * Vel[curr - 1] * Vel[curr])
            Vel_Other_Minus_1 ==
                IF SELECT_U
                THEN (IF kk = 0 THEN 0 ELSE sc.bdy * Vel[curr - 1] * Other[curr])
                ELSE (IF i = 0 THEN 0 ELSE sc.bdx * Vel[curr - ny] * Other[curr])
        IN  (y3 - (Vel_Vel + Vel_Other - Vel_Vel_Minus_1 - Vel_Other_Minus_1)) * sc.dt
                + Vel[curr]]

\* a NextVelocityState that reads the U just computed when it computes V
SerialNextVelocityStateSequential(loc, SELECT_U) ==
    LET Vel == IF SELECT_U THEN loc.U ELSE loc.V
        Other == IF SELECT_U THEN loc.V ELSE loc.NextU
    IN  SetLinearTerms(Vel, Other, SerialCoefficients(par), SELECT_U, GY, GX)

\* Burgers::NextVelocityState of the serial solver: the aliases Vel and Other
\* are taken from local.U and local.V
SerialNextVelocityState(loc, SELECT_U) ==
    LET Vel == IF SELECT_U THEN loc.U ELSE loc.V
        Other == IF SELECT_U THEN loc.V ELSE loc.U
    IN  SetLinearTerms(Vel, Other, SerialCoefficients(par), SELECT_U, GY, GX)

\* the loop is entered or left
SerialLoop ==
    /\ spc = "loop"
    /\ spc' = IF sk < nt - 1 THEN "NextU" ELSE "done"
    /\ UNCHANGED <<local, sk>>
    /\ UNCHANGED <<solverVars, outputVars, historyVars, modelVars>>

\* NextVelocityState(local.NextU, true)
SerialNextU ==
    /\ spc = "NextU"
    /\ local' = [local EXCEPT !.NextU = SerialNextVelocityState(local, TRUE)]
    /\ spc' = "NextV"
    /\ UNCHANGED sk
    /\ UNCHANGED <<solverVars, outputVars, historyVars, modelVars>>

\* NextVelocityState(local.NextV, false)
SerialNextV ==
    /\ spc = "NextV"
    /\ local' = [local EXCEPT !.NextV = SerialNextVelocityState(local, FALSE)]
    /\ spc' = "dcopy"
    /\ UNCHANGED sk
    /\ UNCHANGED <<solverVars, outputVars, historyVars, modelVars>>

\* the two dcopy calls and the end of the loop body
SerialCopy ==
    /\ spc = "dcopy"
    /\ local' = [local EXCEPT !.U = local.NextU, !.V = local.NextV]
    /\ sk' = sk + 1
    /\ spc' = "loop"
    /\ UNCHANGED <<solverVars, outputVars, historyVars, modelVars>>

\* the serial solver on entry to SetIntegratedVelocity, the fields set, with
\* the single-worker run of the partitioned solver on the same grid and
\* input beside it
SerialInit ==
    /\ \E m \in Meshes : Px = m[1] /\ Py = m[2]
    /\ nt = Nt
    /\ \E in \in Inputs :
          /\ par = in.par
          /\ eager = in.eager
          /\ U0 = in.u
          /\ V0 = in.v
          /\ local = [U |-> in.u, V |-> in.v,
                      NextU |-> Fill(GX * GY, in.junk), NextV |-> Fill(GX * GY, in.junk)]
    /\ single = [n \in 0 .. Nt - 1 |-> SingleRun(n)]
    /\ U = <<>> /\ V = <<>> /\ NextU = <<>> /\ NextV = <<>>
    /\ upVel = <<>> /\ downVel = <<>> /\ leftVel = <<>> /\ rightVel = <<>>
    /\ coeffs = <<>>
    /\ pc = <<>>
    /\ k = <<>> /\ got = <<>> /\ chan = <<>> /\ contrib = <<>> /\ E = <<>>
    /\ cnt = <<>>
    /\ spc = "loop"
    /\ sk = 0
    /\ OutputIdle
    /\ HistoryIdle
    /\ ModelIdle

SerialNext ==
    \/ SerialLoop
    \/ SerialNextU
    \/ SerialNextV
    \/ SerialCopy

SerialSpec == SerialInit /\ [][SerialNext]_vars

(***************************************************************************)
(* Model::Model(argc, argv): the run parameters are read from the command  *)
(* line, validated, and the grid numerics derived.                         *)
(***************************************************************************)
\* the argument count ParseParameters accepts
ArgCount == 8

\* the decimal digits
Digits == {"0", "1", "2", "3", "4", "5", "6", "7", "8", "9"}

\* the value of a digit character
DigitValue(ch) ==
    CASE ch = "0" -> 0 [] ch = "1" -> 1 [] ch = "2" -> 2 [] ch = "3" -> 3
      [] ch = "4" -> 4 [] ch = "5" -> 5 [] ch = "6" -> 6 [] ch = "7" -> 7
      [] ch = "8" -> 8 [] ch = "9" -> 9

RECURSIVE ParseDigits(_, _, _)
\* the number the digits of s from position n on spell, up to the first
\* character that is not a digit
ParseDigits(s, n, acc) ==
    IF n > Len(s) THEN acc
    ELSE IF s[n] \notin Digits THEN acc
    ELSE ParseDigits(s, n + 1, acc * 10 + DigitValue(s[n]))

\* atof on a string of characters without a fraction: an optional sign and
\* the leading digits; 0 when no conversion can be made
Atof(s) ==
    IF Len(s) = 0 THEN 0
    ELSE IF s[1] = "-" THEN 0 - ParseDigits(s, 2, 0)
    ELSE ParseDigits(s, 1, 0)

\* the argument strings of the model
ArgStrings == {<<"2">>, <<"-", "1">>, <<"x">>}

\* the command lines of the model: the program name followed by seven
\* arguments, by none, or by two
CommandLines ==
    {[i \in 0 .. ArgCount - 1 |-> IF i = 0 THEN <<"b">> ELSE f[i]] :
        f \in [1 .. ArgCount - 1 -> ArgStrings]}
    \cup {[i \in 0 .. n |-> IF i = 0 THEN <<"b">> ELSE <<"2">>] : n \in {0, 2}}

\* the members of a Model object before anything is assigned to them:
\* indeterminate values
Indeterminate ==
    {[ax |-> v, ay |-> v, b |-> v, c |-> v, Lx |-> v, Ly |-> v, T |-> v] :
        v \in {0 - 3, 0, 5}}

IsValid(m) ==
    /\ m.ax >= 0 /\ m.ay >= 0 /\ m.b >= 0 /\ m.c >= 0
    /\ m.Lx >= 0 /\ m.Ly >= 0 /\ m.T >= 0

\* SetNumerics: quotients are kept as <<numerator, denominator>>
SetNumerics(m) ==
    [Nx |-> 10, Ny |-> 10, Nt |-> 10,
     dx |-> <<m.Lx, 10>>, dy |-> <<m.Ly, 10>>, dt |-> <<m.T, 10>>,
     x0 |-> <<0 - m.Lx, 2>>, y0 |-> <<m.Ly, 2>>]

\* ParseParameters with the accepted argument count
ParseParameters ==
    /\ mpc = "start"
    /\ argc = ArgCount
    /\ mp' = [ax |-> Atof(argv[1]), ay |-> Atof(argv[2]), b |-> Atof(argv[3]),
              c |-> Atof(argv[4]), Lx |-> Atof(argv[5]), Ly |-> Atof(argv[6]),
              T |-> Atof(argv[7])]
    /\ out' = Append(out, "Parameters saved successfully.")
    /\ mpc' = "validate"
    /\ UNCHANGED <<argc, argv, numerics>>
    /\ UNCHANGED <<solverVars, outputVars, serialVars, historyVars>>

\* ParseParameters with any other argument count: the exception is thrown
ParseParametersThrows ==
    /\ mpc = "start"
    /\ argc # ArgCount
    /\ mpc' = "catch"
    /\ UNCHANGED <<argc, argv, mp, numerics, out>>
    /\ UNCHANGED <<solverVars, outputVars, serialVars, historyVars>>

\* the constructor's handler: the exception's text is printed and the
\* constructor goes on
CatchIllegalArgument ==
    /\ mpc = "catch"
    /\ out' = Append(out, "e.what()")
    /\ mpc' = "validate"
    /\ UNCHANGED <<argc, argv, mp, numerics>>
    /\ UNCHANGED <<solverVars, outputVars, serialVars, historyVars>>

\* ValidateParameters, after which the constructor returns
ValidateParameters ==
    /\ mpc = "validate"
    /\ IF ~IsValid(mp)
       THEN /\ out' = Append(out, "WARN: Parameter values have to be (>=0)")
            /\ UNCHANGED numerics
       ELSE /\ numerics' = <<SetNumerics(mp)>>
            /\ UNCHANGED out
    /\ mpc' = "returned"
    /\ UNCHANGED <<argc, argv, mp>>
    /\ UNCHANGED <<solverVars, outputVars, serialVars, historyVars>>

\* no solver runs while the Model object is constructed
SolverIdle ==
    /\ Px = 1 /\ Py = 1
    /\ nt = Nt
    /\ par = ParamsLin
    /\ eager = TRUE
    /\ U0 = <<>> /\ V0 = <<>> /\ single = <<>>
    /\ U = <<>> /\ V = <<>> /\ NextU = <<>> /\ NextV = <<>>
    /\ upVel = <<>> /\ downVel = <<>> /\ leftVel = <<>> /\ rightVel = <<>>
    /\ coeffs = <<>>
    /\ pc = [w \in Procs |-> Pos("idle", TRUE, 0)]
    /\ k = [w \in Procs |-> 0]
    /\ got = <<>> /\ chan = <<>> /\ contrib = <<>> /\ E = <<>> /\ cnt = <<>>

\* the state on entry to the constructor
ModelInit ==
    /\ SolverIdle
    /\ OutputIdle
    /\ SerialIdle
    /\ HistoryIdle
    /\ mpc = "start"
    /\ argv \in CommandLines
    /\ argc = Cardinality(DOMAIN argv)
    /\ mp \in Indeterminate
    /\ numerics = <<>>
    /\ out = <<>>

ModelNext ==
    \/ ParseParameters
    \/ ParseParametersThrows
    \/ CatchIllegalArgument
    \/ ValidateParameters

ModelSpec == ModelInit /\ [][ModelNext]_vars

(***************************************************************************)
(* The history-keeping single-process solver (src/Burgers.cpp), which      *)
(* keeps U[k] and V[k] of every time level: SetInitialVelocity.            *)
(***************************************************************************)
\* largest grid size tried besides the one Model::SetNumerics sets
MaxGrid == 4

\* Model::SetNumerics: Nx = 10, Ny = 10
NumericsGrid == 10

\* the grid sizes Nx and Ny of the runs
GridSizes == (3 .. MaxGrid) \cup {NumericsGrid}

\* the reduced parameters Nyr = Ny - 2 and Nxr = Nx - 2
HistNyr == histNy - 2
HistNxr == histNx - 2

\* the indices of U0 = new double[Nyr*Nxr]
Allocated == 0 .. HistNyr * HistNxr - 1

\* the index of the store of iteration (i, j): (i-1)*Nyr+(j-1)
StoreIndex(i, j) == (i - 1) * HistNyr + (j - 1)

\* the value stored in iteration (i, j): the initial profile at x = x0 + i*dx,
\* y = y0 - j*dy, kept as the grid point it is evaluated at
ProfileAt(i, j) == <<i, j>>

\* j++, and i++ with j = 0 at the end of the inner loop
NextCounters(i, j) == IF j + 1 < histNy THEN <<i, j + 1>> ELSE <<i + 1, 0>>

\* U0 = new double[Nyr*Nxr]: the array holds whatever the memory held
HistoryAllocate ==
    /\ hpc = "enter"
    /\ \E junk \in JunkValues : histU0' = [n \in Allocated |-> junk]
    /\ hi' = 0 /\ hj' = 0
    /\ hpc' = "loop"
    /\ UNCHANGED <<histNx, histNy, wild>>
    /\ UNCHANGED <<solverVars, outputVars, serialVars, modelVars>>

\* an iteration of for (i < Nx) for (j < Ny) whose index lies in U0
HistoryStore ==
    /\ hpc = "loop"
    /\ hi < histNx
    /\ StoreIndex(hi, hj) \in Allocated
    /\ histU0' = [histU0 EXCEPT ![StoreIndex(hi, hj)] = ProfileAt(hi, hj)]
    /\ hi' = NextCounters(hi, hj)[1]
    /\ hj' = NextCounters(hi, hj)[2]
    /\ UNCHANGED <<histNx, histNy, hpc, wild>>
    /\ UNCHANGED <<solverVars, outputVars, serialVars, modelVars>>

\* an iteration whose index lies outside U0, the store landing in whatever
\* memory is there and the loop going on
HistoryStoreOutside ==
    /\ hpc = "loop"
    /\ hi < histNx
    /\ StoreIndex(hi, hj) \notin Allocated
    /\ wild' = wild \cup {[i |-> hi, j |-> hj, index |-> StoreIndex(hi, hj)]}
    /\ hi' = NextCounters(hi, hj)[1]
    /\ hj' = NextCounters(hi, hj)[2]
    /\ UNCHANGED <<histNx, histNy, hpc, histU0>>
    /\ UNCHANGED <<solverVars, outputVars, serialVars, modelVars>>

\* an iteration whose index lies outside U0, the store faulting and the
\* process ending
HistoryFault ==
    /\ hpc = "loop"
    /\ hi < histNx
    /\ StoreIndex(hi, hj) \notin Allocated
    /\ hpc' = "fault"
    /\ UNCHANGED <<histNx, histNy, hi, hj, histU0, wild>>
    /\ UNCHANGED <<solverVars, outputVars, serialVars, modelVars>>

\* the outer loop ends and SetInitialVelocity returns
HistoryReturn ==
    /\ hpc = "loop"
    /\ hi >= histNx
    /\ hpc' = "done"
    /\ UNCHANGED <<histNx, histNy, hi, hj, histU0, wild>>
    /\ UNCHANGED <<solverVars, outputVars, serialVars, modelVars>>

\* the state on entry to SetInitialVelocity
HistoryInit ==
    /\ SolverIdle
    /\ OutputIdle
    /\ SerialIdle
    /\ ModelIdle
    /\ histNx \in GridSizes
    /\ histNy \in GridSizes
    /\ hpc = "enter"
    /\ hi = 0 /\ hj = 0
    /\ histU0 = <<>>
    /\ wild = {}

HistoryNext ==
    \/ HistoryAllocate
    \/ HistoryStore
    \/ HistoryStoreOutside
    \/ HistoryFault
    \/ HistoryReturn

HistorySpec == HistoryInit /\ [][HistoryNext]_vars

(***************************************************************************)
(* Claims.                                                                 *)
(***************************************************************************)
\* the workers have all committed n steps
AllAtLevel(n) == \A w \in Procs : k[w] = n

\* C1: decomposition independence.  After every committed step, on every
\* mesh, each worker's U and V equal the sub-block, at the worker's offset,
\* of the fields the single worker holds after the same number of steps.
C1_DecompositionIndependence ==
    \A w \in Procs :
        LET ref == single[k[w]]
        IN  /\ U[w] = Block(ref.u, w)
            /\ V[w] = Block(ref.v, w)

\* C1 witness: a 2 x 2 mesh has finished all steps on a field that moved
C1_Witness ==
    /\ Px = 2 /\ Py = 2
    /\ AllAtLevel(Nt - 1)
    /\ Nt - 1 >= 2
    /\ U[0] # Block(U0, 0)
    /\ U[3] # Block(single[1].u, 3)

\* row j of a local field, as a vector over the columns
Row(F, j) == [i \in 0 .. Nxr - 1 |-> F[i * Nyr + j]]

\* column i of a local field, as a vector over the rows
Col(F, i) == [j \in 0 .. Nyr - 1 |-> F[i * Nyr + j]]

\* the component (u when sel) of the single-worker fields after n steps,
\* cut to the sub-block of worker w
SingleBlock(n, sel, w) == Block(IF sel THEN single[n].u ELSE single[n].v, w)

\* C2: same-time-level update.  While a worker exchanges halos for V and
\* computes the next V, and until CopyAndDelete, its U is still the U of the
\* step's prior level although the next U already exists in NextU; the next
\* V it then holds is the one computed from that prior U; and no message in
\* flight carries values of a level its sender has not committed.
C2_SameTimeLevel ==
    /\ \A w \in Procs :
          (~pc[w].sel \/ pc[w].at = "copy") =>
             /\ U[w] = SingleBlock(k[w], TRUE, w)
             /\ V[w] = SingleBlock(k[w], FALSE, w)
             /\ NextU[w] = SingleBlock(k[w] + 1, TRUE, w)
             /\ (pc[w].at = "copy" => NextV[w] = SingleBlock(k[w] + 1, FALSE, w))
    /\ \A s \in Procs : \A r \in Procs :
          \A n \in 1 .. Len(chan[<<s, r>>]) :
             \E j \in 0 .. k[s] : \E sel \in BOOLEAN :
                chan[<<s, r>>][n].data \in
                   {Row(SingleBlock(j, sel, s), 0), Row(SingleBlock(j, sel, s), Nyr - 1),
                    Col(SingleBlock(j, sel, s), 0), Col(SingleBlock(j, sel, s), Nxr - 1)}

\* C2 witness: in the second step a worker with a neighbour is about to
\* compute the next V, which depends on U (b # 0), while its next U,
\* different from its U, already exists
C2_Witness ==
    \E w \in Procs :
        /\ Px * Py > 1
        /\ k[w] = 1
        /\ pc[w] = Pos("calc", FALSE, 0)
        /\ par.b # 0
        /\ NextU[w] # U[w]
        /\ U[w] = V[w]

\* C3: halo zero-fill.  When SetCaches has returned, the halo buffer of
\* every direction without a neighbour is all zero.
C3_HaloZeroFill ==
    \A w \in Procs :
        pc[w].at = "calc" =>
           /\ (GetUp(w) < 0 => \A i \in 0 .. Nxr - 1 : upVel[w][i] = 0)
           /\ (GetDown(w) < 0 => \A i \in 0 .. Nxr - 1 : downVel[w][i] = 0)
           /\ (GetLeft(w) < 0 => \A j \in 0 .. Nyr - 1 : leftVel[w][j] = 0)
           /\ (GetRight(w) < 0 => \A j \in 0 .. Nyr - 1 : rightVel[w][j] = 0)

\* C3 witness: SetCaches has returned for the first time on a worker whose
\* buffers held junk (its energy member still does), whose field is not
\* zero at the edge and which lacks an up neighbour but has a down one
C3_Witness ==
    \E w \in Procs :
        /\ pc[w] = Pos("calc", TRUE, 0)
        /\ k[w] = 0
        /\ E[w] # 0
        /\ GetUp(w) < 0 /\ GetDown(w) >= 0
        /\ Row(U[w], 0) # Zeroes(Nxr)
        /\ downVel[w] # Zeroes(Nxr)

\* C4: halo content.  When SetCaches(Vel) has returned on worker w, each
\* buffer of a direction with a neighbour holds that neighbour's facing
\* edge of the same component at the same level: upVel the bottom row of
\* the up neighbour, downVel the top row of the down neighbour, leftVel the
\* rightmost column of the left neighbour, rightVel the leftmost column of
\* the right neighbour.  The neighbour's field is read off the neighbour
\* while it is in the same step, and off the single-worker run once the
\* neighbour has gone on to commit.
C4_HaloContent ==
    \A w \in Procs :
        pc[w].at = "calc" =>
           LET sel == pc[w].sel
               NbVel(n) == IF k[n] = k[w] THEN VelOf(n, sel)
                           ELSE SingleBlock(k[w], sel, n)
           IN  /\ (GetUp(w) >= 0 => upVel[w] = Row(NbVel(GetUp(w)), Nyr - 1))
               /\ (GetDown(w) >= 0 => downVel[w] = Row(NbVel(GetDown(w)), 0))
               /\ (GetLeft(w) >= 0 => leftVel[w] = Col(NbVel(GetLeft(w)), Nxr - 1))
               /\ (GetRight(w) >= 0 => rightVel[w] = Col(NbVel(GetRight(w)), 0))

\* C4 witness: on a 2 x 2 mesh SetCaches(V) has returned in the second
\* step on worker 0, whose two neighbours are still in that step, and the
\* two halos it received differ from each other and from its own edges
C4_Witness ==
    /\ Px = 2 /\ Py = 2
    /\ pc[0] = Pos("calc", FALSE, 0)
    /\ k[0] = 1 /\ k[1] = 1 /\ k[2] = 1
    /\ downVel[0] # rightVel[0]
    /\ downVel[0] # Row(V[0], 0)
    /\ rightVel[0] # Col(V[0], 0)
    /\ Col(V[1], 0) # Col(V[1], Nxr - 1)
    /\ Row(V[2], 0) # Row(V[2], Nyr - 1)

\* C6: exchange before evaluation.  When a worker is about to evaluate the
\* derivatives and the boundary corrections, every MPI_Sendrecv of this
\* SetCaches call that has a source has received its message, and the
\* buffers of the directions without a source have been zeroed.
C6_ExchangeBeforeEvaluation ==
    \A w \in Procs :
        /\ pc[w].at \in {"zero", "calc"} =>
              \A x \in 1 .. 4 : RecvFrom(w, x) >= 0 => x \in got[w]
        /\ pc[w].at = "calc" =>
              /\ (GetUp(w) < 0 => upVel[w] = Zeroes(Nxr))
              /\ (GetDown(w) < 0 => downVel[w] = Zeroes(Nxr))
              /\ (GetLeft(w) < 0 => leftVel[w] = Zeroes(Nyr))
              /\ (GetRight(w) < 0 => rightVel[w] = Zeroes(Nyr))

\* C6 witness: a worker of the 2 x 2 mesh is about to evaluate, having
\* received from both of its neighbours
C6_Witness ==
    /\ Px = 2 /\ Py = 2
    /\ pc[3].at = "calc"
    /\ got[3] = {1, 3}
    /\ upVel[3] # Zeroes(Nxr)

\* the workers whose energy evaluation has returned
Finished == {w \in Procs : pc[w].at = "done"}

\* C7: global energy reduction.  Every worker whose CalculateEnergyState
\* has returned holds the sum of the local energies of all workers, so all
\* of them hold the same value.
C7_EnergyReduction ==
    \A w \in Finished :
        /\ E[w] = SumTo([x \in Procs |-> LocalEnergy(U[x], V[x])], Px * Py)
        /\ \A x \in Finished : E[x] = E[w]

\* C7 witness: all four workers of a 2 x 2 mesh are done, two of them with
\* different local energies, none zero
C7_Witness ==
    /\ Px = 2 /\ Py = 2
    /\ Finished = Procs
    /\ LocalEnergy(U[0], V[0]) # LocalEnergy(U[1], V[1])
    /\ \A w \in Procs : LocalEnergy(U[w], V[w]) > 0
    /\ E[0] > LocalEnergy(U[0], V[0])

\* C8: the zero field is a fixed point.  If the initial U and V are all
\* zero then every worker's U and V stay all zero, every next buffer is all
\* zero, after the first step every halo buffer is all zero, and the global
\* energy is 0.
C8_ZeroFixedPoint ==
    (U0 = Zeroes(GX * GY) /\ V0 = Zeroes(GX * GY)) =>
        \A w \in Procs :
            /\ U[w] = Zeroes(Nxr * Nyr)
            /\ V[w] = Zeroes(Nxr * Nyr)
            /\ NextU[w] \in {<<>>, Zeroes(Nxr * Nyr)}
            /\ NextV[w] \in {<<>>, Zeroes(Nxr * Nyr)}
            /\ k[w] >= 1 =>
                  /\ upVel[w] = Zeroes(Nxr) /\ downVel[w] = Zeroes(Nxr)
                  /\ leftVel[w] = Zeroes(Nyr) /\ rightVel[w] = Zeroes(Nyr)
            /\ pc[w].at = "done" => E[w] = 0

\* C8 witness: a 2 x 2 mesh whose buffers held junk has finished all steps
\* and the energy evaluation on the zero field, with active coefficients
C8_Witness ==
    /\ U0 = Zeroes(GX * GY) /\ V0 = Zeroes(GX * GY)
    /\ Px = 2 /\ Py = 2
    /\ par.b # 0 /\ par.c # 0 /\ par.ax # 0 /\ par.ay # 0
    /\ AllAtLevel(Nt - 1)
    /\ Nt - 1 >= 1
    /\ Finished = Procs
    /\ coeffs[0].dVel_dx_2_coeffs[<<0, 0>>] # 0

\* the explicit upwind stencil at local index x, neighbours outside the
\* block taken from the halo buffers h
Stencil(Vel, Other, h, SELECT_U, x) ==
    LET i  == x \div Nyr
        j  == x % Nyr
        v  == Vel[x]
        o  == Other[x]
        vl == IF i = 0 THEN h.left[j] ELSE Vel[x - Nyr]
        vr == IF i = Nxr - 1 THEN h.right[j] ELSE Vel[x + Nyr]
        vu == IF j = 0 THEN h.up[i] ELSE Vel[x - 1]
        vd == IF j = Nyr - 1 THEN h.down[i] ELSE Vel[x + 1]
        lin == par.c * par.idx * par.idx * (vl - 2 * v + vr)
               + par.c * par.idy * par.idy * (vu - 2 * v + vd)
               - par.ax * par.idx * (v - vl)
               - par.ay * par.idy * (v - vu)
        nonlin == IF SELECT_U
                  THEN par.b * par.idx * v * (v - vl) + par.b * par.idy * o * (v - vu)
                  ELSE par.b * par.idy * v * (v - vu) + par.b * par.idx * o * (v - vl)
    IN  v + par.dt * (lin - nonlin)

\* C10: step formula.  The buffer NextVelocityState returns equals, at
\* every local cell, the explicit upwind stencil applied to Vel, Other and
\* the halo buffers: checked for U right after the U evaluation and for V
\* right after the V evaluation, while fields and halos are those it read.
C10_StepFormula ==
    \A w \in Procs :
        /\ pc[w] = Pos("post", FALSE, 1) =>
              \A x \in 0 .. Nxr * Nyr - 1 :
                 NextU[w][x] = Stencil(U[w], V[w], Halo(w), TRUE, x)
        /\ pc[w].at = "copy" =>
              \A x \in 0 .. Nxr * Nyr - 1 :
                 NextV[w][x] = Stencil(V[w], U[w], Halo(w), FALSE, x)

\* C10 witness: the second step's next V exists on a worker of a 2 x 1 mesh
\* (an inner edge and three outer edges) with every term of the formula
\* active, and it differs from V
C10_Witness ==
    /\ Px = 2 /\ Py = 1
    /\ par.b # 0 /\ par.c # 0 /\ par.ax # 0 /\ par.ay # 0
    /\ pc[1].at = "copy"
    /\ k[1] = 1
    /\ NextV[1] # V[1]
    /\ leftVel[1] # Zeroes(Nyr)

\* C5: deadlock freedom of the halo exchange.  On every mesh of the model,
\* whether the library buffers sends or completes them only at the matching
\* receive, every worker eventually has run all Nt-1 steps and the energy
\* evaluation: no worker waits forever in an MPI_Sendrecv.
C5_DeadlockFreedom ==
    <>(\A w \in Procs : pc[w].at = "done" /\ k[w] = Nt - 1)

\* C5 witness: a chain of three workers, the middle one exchanging with
\* both sides, has finished all steps although sends complete only at the
\* matching receive
C5_Witness ==
    /\ Px = 3 /\ Py = 1
    /\ ~eager
    /\ \A w \in Procs : pc[w].at = "done" /\ k[w] = Nt - 1
    /\ Nt - 1 >= 1
    /\ \A pr \in Procs \X Procs : chan[pr] = <<>>

\* C9: configuration errors abort the run.  The constructor returns
\* normally only when the argument count was the accepted one, the seven
\* parameters are in range and the grid numerics have been set; with a
\* malformed or out-of-range command line it does not return.
C9_ConfigErrorsAbort ==
    mpc = "returned" =>
        /\ argc = ArgCount
        /\ IsValid(mp)
        /\ numerics # <<>>

\* ---------------------------------------------------------------------------
\* Exchange and reduction counts

\* the SetCaches calls worker w has returned from: two per finished step, and
\* the one of the U half once the V half has begun
SetCachesReturned(w) ==
    2 * k[w] + (IF pc[w].at = "copy" THEN 2
                ELSE IF pc[w].at \in {"post", "wait", "zero", "calc"} /\ ~pc[w].sel THEN 1
                ELSE 0)

\* whether worker w, inside SetCaches, has entered the MPI_Sendrecv of
\* direction x
InSetCachesEntered(w, x) ==
    \/ pc[w].at = "post" /\ x < pc[w].x
    \/ pc[w].at = "wait" /\ x <= pc[w].x
    \/ pc[w].at \in {"zero", "calc"}

\* C11 (amended): every SetCaches call enters exactly one MPI_Sendrecv per
\* direction, and SetCaches is called once for each velocity component, so a
\* time step makes two paired exchanges per direction (eight in all); the
\* energy evaluation enters MPI_Allreduce exactly once.
C11_ExchangeCounts ==
    \A w \in Procs :
        /\ \A x \in 1 .. 4 :
              cnt[w].sendrecv[x] =
                  SetCachesReturned(w) + (IF InSetCachesEntered(w, x) THEN 1 ELSE 0)
        /\ pc[w].at \in {"energy", "reduce", "done"} =>
              \A x \in 1 .. 4 : cnt[w].sendrecv[x] = 2 * (nt - 1)
        /\ cnt[w].allreduce = (IF pc[w].at \in {"reduce", "done"} THEN 1 ELSE 0)

\* C11 as stated: one paired exchange per direction per time step, so a worker
\* that has left the loop has made one exchange per direction per step
C11_OnePerDirectionPerStep ==
    \A w \in Procs :
        pc[w].at \in {"energy", "reduce", "done"} =>
            \A x \in 1 .. 4 : cnt[w].sendrecv[x] = k[w]

\* a worker with neighbours has finished its run
C11_Witness ==
    /\ Px = 2 /\ Py = 2
    /\ pc[0].at = "done"
    /\ k[0] = Nt - 1
    /\ \A x \in 1 .. 4 : cnt[0].sendrecv[x] = 2 * (Nt - 1)
    /\ cnt[0].allreduce = 1

\* ---------------------------------------------------------------------------
\* Step count and termination of SetIntegratedVelocity

\* the meshes of at most two workers
SmallMeshes == {m \in Meshes : m[1] * m[2] <= 2}

\* runs of 1 .. Nt time levels on the small meshes
RunInit == InitWith(SmallMeshes, 1 .. Nt)

RunSpec == RunInit /\ [][Next]_vars /\ WF_vars(Next)

\* worker w has returned from SetIntegratedVelocity
Integrated(w) == pc[w].at \in {"energy", "reduce", "done"}

\* the operators are built once before the loop; the loop body runs once per
\* step, nt - 1 times in all; a run of one level leaves U and V as constructed
C13_Counts ==
    \A w \in Procs :
        /\ cnt[w].build = (IF pc[w].at = "init" THEN 0 ELSE 1)
        /\ k[w] <= nt - 1
        /\ cnt[w].copy = k[w]
        /\ cnt[w].eval[TRUE] =
              k[w] + (IF pc[w].at = "copy" \/ (pc[w].at # "init" /\ ~pc[w].sel)
                      THEN 1 ELSE 0)
        /\ cnt[w].eval[FALSE] = k[w] + (IF pc[w].at = "copy" THEN 1 ELSE 0)
        /\ Integrated(w) =>
              /\ cnt[w].build = 1
              /\ cnt[w].copy = nt - 1
              /\ cnt[w].eval[TRUE] = nt - 1 /\ cnt[w].eval[FALSE] = nt - 1
        /\ nt = 1 =>
              /\ cnt[w].copy = 0 /\ cnt[w].eval[TRUE] = 0 /\ cnt[w].eval[FALSE] = 0
              /\ U[w] = Block(U0, w) /\ V[w] = Block(V0, w)

\* C13: SetIntegratedVelocity builds the operators exactly once, performs
\* exactly Nt - 1 steps and then terminates; with Nt = 1 it performs no step
\* and U, V are the initial field.
C13_StepCount ==
    /\ []C13_Counts
    /\ <>(\A w \in Procs : Integrated(w))

\* a worker of a two-worker mesh has returned from a run of Nt levels
C13_Witness ==
    /\ Px * Py = 2
    /\ nt = Nt
    /\ Integrated(1)
    /\ cnt[1].build = 1
    /\ cnt[1].copy = Nt - 1
    /\ U[1] # Block(U0, 1)

\* ---------------------------------------------------------------------------
\* Field assembly

\* the rows of the global field G as WriteOf prints them
GlobalRows(G) ==
    [j \in 1 .. GY + 2 |->
        [i \in 1 .. GX + 2 |->
            IF j = 1 \/ i = 1 \/ j = GY + 2 \/ i = GX + 2 THEN 0
            ELSE G[(i - 2) * GY + (j - 2)]]]

\* after AssembleMatrix on the root, M holds every worker's block at the
\* worker's offset, transposed to row-major; the iterations of the assembly
\* loop assign every cell of M exactly once; once every worker has closed the
\* file, it holds the U and the V field as the root wrote them
C12_Assembled ==
    /\ \A cell \in Cells : Cardinality({t \in Writes : Target(t) = cell}) = 1
    /\ pc[0].at = "write" =>
          \A kk \in Procs : \A i \in 0 .. rankNxrMap(kk) - 1 : \A j \in 0 .. rankNyrMap(kk) - 1 :
              M[0][<<rankDisplsYMap(kk) + j, rankDisplsXMap(kk) + i>>]
                  = VelOf(kk, pc[0].sel)[i * rankNyrMap(kk) + j]
    /\ \A n \in DOMAIN dataTxt : dataTxt[n].by = 0
    /\ (\A w \in Procs : pc[w].at = "written") =>
          dataTxt = <<[by |-> 0, id |-> "U", rows |-> GlobalRows(U0)],
                      [by |-> 0, id |-> "V", rows |-> GlobalRows(V0)]>>

\* no step changes the M of a worker other than the root, and data.txt
\* changes only by the root appending a field to it
C12_RootOnly ==
    /\ \A w \in Procs \ {0} : M'[w] = M[w]
    /\ dataTxt' # dataTxt =>
          /\ pc[0].at = "write"
          /\ pc'[0].at # "write"
          /\ Len(dataTxt') = Len(dataTxt) + 1
          /\ SubSeq(dataTxt', 1, Len(dataTxt)) = dataTxt

\* C12: after AssembleMatrix on the root, M[displY_k + j][displX_k + i] is
\* worker k's Vel[i*Nyr_k + j] for every worker k and local index (i, j), every
\* cell of M being written exactly once; on every other worker M is left
\* unmodified and nothing is written to the output.
C12_FieldAssembly == []C12_Assembled /\ [][C12_RootOnly]_vars

\* the root of a 2 by 2 mesh has assembled V, which differs from U, from the
\* blocks of all four workers
C12_Witness ==
    /\ Px = 2 /\ Py = 2
    /\ U0 # V0
    /\ pc[0] = Pos("write", FALSE, 0)
    /\ pc[3].at \in {"write", "close", "written"}
    /\ M[0][<<GY - 1, GX - 1>>] = V[3][Nxr * Nyr - 1]
    /\ M[0][<<0, GX - 1>>] # M[0][<<GY - 1, 0>>]
    /\ Len(dataTxt) = 1

\* ---------------------------------------------------------------------------
\* The serial solver and the single worker

Corner(G, ny, nx) == [x \in 0 .. nx * ny - 1 |-> G[(x \div ny) * GY + (x % ny)]]

\* the tridiagonal matrix with diagonal alpha and both off-diagonals beta
Tridiagonal(A, alpha, beta, n) ==
    \A r, s \in 0 .. n - 1 :
        /\ A[<<r, s>>] = (IF r = s THEN alpha
                          ELSE IF r = s + 1 \/ s = r + 1 THEN beta ELSE 0)
        /\ A[<<r, s>>] = A[<<s, r>>]

\* the matrix with diagonal alpha and beta on the one off-diagonal next to it,
\* above the diagonal when UPPER and below it otherwise
Bidiagonal(A, alpha, beta, n, UPPER) ==
    \A r, s \in 0 .. n - 1 :
        A[<<r, s>>] = (IF r = s THEN alpha
                       ELSE IF UPPER /\ s = r + 1 THEN beta
                       ELSE IF ~UPPER /\ r = s + 1 THEN beta ELSE 0)

\* C15: for every extent n >= 1 the second-derivative operator has -2c/h^2 on
\* the diagonal, c/h^2 on the two adjacent off-diagonals and zero elsewhere,
\* and is symmetric; the first-derivative operators have a/h on the diagonal
\* and -a/h on one adjacent off-diagonal, the upper one for x (applied as a
\* right-multiply) and the lower one for y (applied as a left-multiply), so
\* that both yield a/h*(Vel[k] - Vel[k-1]) along their direction, the sample
\* before the first one counting as absent.
C15_OperatorStructure ==
    /\ \A w \in Procs :
          pc[w].at # "init" => coeffs[w] = SetMatrixCoefficients(par, Nyr, Nxr)
    /\ \A nx \in 1 .. GX : \A ny \in 1 .. GY :
          LET cf == SetMatrixCoefficients(par, ny, nx)
          IN  /\ Tridiagonal(cf.dVel_dx_2_coeffs, (0 - 2) * par.c * par.idx * par.idx,
                             par.c * par.idx * par.idx, nx)
              /\ Tridiagonal(cf.dVel_dy_2_coeffs, (0 - 2) * par.c * par.idy * par.idy,
                             par.c * par.idy * par.idy, ny)
              /\ Bidiagonal(cf.dVel_dx_coeffs, par.ax * par.idx, 0 - par.ax * par.idx,
                            nx, TRUE)
              /\ Bidiagonal(cf.dVel_dy_coeffs, par.ay * par.idy, 0 - par.ay * par.idy,
                            ny, FALSE)
              /\ \A G \in {U0, V0} :
                    LET Vel == Corner(G, ny, nx)
                    IN  \A x \in 0 .. nx * ny - 1 :
                            /\ dtrmmRU(cf.dVel_dx_coeffs, Vel, ny, nx)[x] =
                                  par.ax * par.idx *
                                      (Vel[x] - (IF x \div ny > 0 THEN Vel[x - ny] ELSE 0))
                            /\ dtrmmLL(cf.dVel_dy_coeffs, Vel, ny, nx)[x] =
                                  par.ay * par.idy *
                                      (Vel[x] - (IF x % ny > 0 THEN Vel[x - 1] ELSE 0))

\* a worker has built its operators, with diffusion and advection
\* coefficients that are not zero, and the x operator applied to its field
\* differs from the diagonal term alone
C15_Witness ==
    /\ GX = 4
    /\ par.c # 0 /\ par.ax # 0 /\ par.ay # 0
    /\ pc[0].at = "calc"
    /\ coeffs[0].dVel_dx_coeffs[<<0, 1>>] = 0 - par.ax * par.idx
    /\ coeffs[0].dVel_dy_coeffs[<<1, 0>>] = 0 - par.ay * par.idy
    /\ coeffs[0].dVel_dx_2_coeffs[<<1, 0>>] = coeffs[0].dVel_dx_2_coeffs[<<0, 1>>]
    /\ \E x \in 0 .. Nxr * Nyr - 1 :
          dtrmmRU(coeffs[0].dVel_dx_coeffs, U[0], Nyr, Nxr)[x] # par.ax * par.idx * U[0][x]

\* ---------------------------------------------------------------------------
\* Boundary corrections

\* the top-left corner, ny rows by nx columns, of a local field F
SubBlock(F, ny, nx) == [x \in 0 .. nx * ny - 1 |-> F[(x \div ny) * Nyr + (x % ny)]]

\* the derivative arrays of Vel before the boundary correction
RawDerivatives(Vel, ny, nx) ==
    LET cf == SetMatrixCoefficients(par, ny, nx)
    IN  [dVel_dx_2 |-> dsymmR(cf.dVel_dx_2_coeffs, Vel, ny, nx),
         dVel_dy_2 |-> dsymmL(cf.dVel_dy_2_coeffs, Vel, ny, nx),
         dVel_dx   |-> dtrmmRU(cf.dVel_dx_coeffs, Vel, ny, nx),
         dVel_dy   |-> dtrmmLL(cf.dVel_dy_coeffs, Vel, ny, nx)]

\* C16: UpdateBoundsLinear adds c/dx^2*leftVel[j] to dVel_dx_2 and subtracts
\* ax/dx*leftVel[j] from dVel_dx at the left-edge cell of every row j, adds
\* c/dx^2*rightVel[j] to dVel_dx_2 at the right-edge cell, adds
\* c/dy^2*upVel[i] to dVel_dy_2 and subtracts ay/dy*upVel[i] from dVel_dy at the
\* top-edge cell of every column i, and adds c/dy^2*downVel[i] to dVel_dy_2 at
\* the bottom-edge cell; no first-derivative term is corrected at the right
\* or bottom edge, no other cell is changed, and a block of a single column
\* or row gets both corrections in its one column or row.
C16_LinearBoundaryCorrection ==
    \A w \in Procs :
        pc[w].at = "calc" =>
            \A nx \in 1 .. Nxr : \A ny \in 1 .. Nyr :
                LET d == RawDerivatives(SubBlock(VelOf(w, pc[w].sel), ny, nx), ny, nx)
                    e == UpdateBoundsLinear(d, Halo(w), par, ny, nx)
                    cx == par.c * par.idx * par.idx
                    cy == par.c * par.idy * par.idy
                IN  \A i \in 0 .. nx - 1 : \A j \in 0 .. ny - 1 :
                        LET x == i * ny + j
                        IN  /\ e.dVel_dx_2[x] - d.dVel_dx_2[x] =
                                  (IF i = 0 THEN cx * leftVel[w][j] ELSE 0)
                                  + (IF i = nx - 1 THEN cx * rightVel[w][j] ELSE 0)
                            /\ d.dVel_dx[x] - e.dVel_dx[x] =
                                  (IF i = 0 THEN par.ax * par.idx * leftVel[w][j] ELSE 0)
                            /\ e.dVel_dy_2[x] - d.dVel_dy_2[x] =
                                  (IF j = 0 THEN cy * upVel[w][i] ELSE 0)
                                  + (IF j = ny - 1 THEN cy * downVel[w][i] ELSE 0)
                            /\ d.dVel_dy[x] - e.dVel_dy[x] =
                                  (IF j = 0 THEN par.ay * par.idy * upVel[w][i] ELSE 0)

\* the middle worker of a row of three evaluates with left and right halo
\* values that are not zero, diffusion and advection being active
C16_Witness ==
    /\ Px = 3
    /\ par.c # 0 /\ par.ax # 0
    /\ pc[1].at = "calc"
    /\ \E j \in 0 .. Nyr - 1 : leftVel[1][j] # 0 /\ rightVel[1][j] # 0
    /\ LET d == RawDerivatives(VelOf(1, pc[1].sel), Nyr, Nxr)
       IN  UpdateBoundsLinear(d, Halo(1), par, Nyr, Nxr).dVel_dx # d.dVel_dx

\* the shifted products of Vel and Other before the boundary correction
RawProducts(Vel, Other, SELECT_U, ny, nx) ==
    IF SELECT_U
    THEN [Vel_Vel_Minus_1   |-> MatMul(Vel, Vel, ny, nx, TRUE, FALSE, par.b * par.idx),
          Vel_Other_Minus_1 |-> MatMul(Vel, Other, ny, nx, FALSE, TRUE, par.b * par.idy)]
    ELSE [Vel_Vel_Minus_1   |-> MatMul(Vel, Vel, ny, nx, FALSE, TRUE, par.b * par.idy),
          Vel_Other_Minus_1 |-> MatMul(Vel, Other, ny, nx, TRUE, FALSE, par.b * par.idx)]

\* C17: UpdateBoundsNonLinear sets, when solving u, Vel_Other_Minus_1 to
\* b/dy*upVel[i]*Other[i,0] at the top-edge cells and Vel_Vel_Minus_1 to
\* b/dx*leftVel[j]*Vel[0,j] at the left-edge cells, and when solving v,
\* Vel_Vel_Minus_1 to b/dy*upVel[i]*Vel[i,0] at the top-edge cells and
\* Vel_Other_Minus_1 to b/dx*leftVel[j]*Other[0,j] at the left-edge cells; the
\* halo buffers hold the edges of the component being solved; no other entry
\* of the two arrays is changed.
C17_NonLinearBoundaryCorrection ==
    \A w \in Procs :
        pc[w].at = "calc" =>
            \A nx \in 1 .. Nxr : \A ny \in 1 .. Nyr :
                LET SELECT_U == pc[w].sel
                    Vel == SubBlock(VelOf(w, SELECT_U), ny, nx)
                    Other == SubBlock(OtherOf(w, SELECT_U), ny, nx)
                    m == RawProducts(Vel, Other, SELECT_U, ny, nx)
                    e == UpdateBoundsNonLinear(Vel, Other, m, Halo(w), par, SELECT_U, ny, nx)
                    top == IF SELECT_U THEN e.Vel_Other_Minus_1 ELSE e.Vel_Vel_Minus_1
                    left == IF SELECT_U THEN e.Vel_Vel_Minus_1 ELSE e.Vel_Other_Minus_1
                    topBefore == IF SELECT_U THEN m.Vel_Other_Minus_1 ELSE m.Vel_Vel_Minus_1
                    leftBefore == IF SELECT_U THEN m.Vel_Vel_Minus_1 ELSE m.Vel_Other_Minus_1
                IN  /\ \A i \in 0 .. nx - 1 :
                          top[i * ny] = par.b * par.idy * upVel[w][i]
                                            * (IF SELECT_U THEN Other[i * ny] ELSE Vel[i * ny])
                    /\ \A j \in 0 .. ny - 1 :
                          left[j] = par.b * par.idx * leftVel[w][j]
                                        * (IF SELECT_U THEN Vel[j] ELSE Other[j])
                    /\ \A i \in 0 .. nx - 1 : \A j \in 1 .. ny - 1 :
                          top[i * ny + j] = topBefore[i * ny + j]
                    /\ \A i \in 1 .. nx - 1 : \A j \in 0 .. ny - 1 :
                          left[i * ny + j] = leftBefore[i * ny + j]
                    /\ (GetUp(w) # NoNeighbour /\ k[GetUp(w)] = k[w]) =>
                          upVel[w] = Row(VelOf(GetUp(w), SELECT_U), Nyr - 1)
                    /\ (GetLeft(w) # NoNeighbour /\ k[GetLeft(w)] = k[w]) =>
                          leftVel[w] = Col(VelOf(GetLeft(w), SELECT_U), Nxr - 1)

\* the last worker of a 2 by 2 mesh solves v, U and V differing, nonlinear
\* advection active, with top and left halo values that change the products
C17_Witness ==
    /\ Px = 2 /\ Py = 2
    /\ par.b # 0
    /\ pc[3] = Pos("calc", FALSE, 0)
    /\ U[3] # V[3]
    /\ LET m == RawProducts(V[3], U[3], FALSE, Nyr, Nxr)
           e == UpdateBoundsNonLinear(V[3], U[3], m, Halo(3), par, FALSE, Nyr, Nxr)
       IN  /\ e.Vel_Vel_Minus_1 # m.Vel_Vel_Minus_1
           /\ e.Vel_Other_Minus_1 # m.Vel_Other_Minus_1

\* ---------------------------------------------------------------------------
\* Frame conditions

\* the four coefficient matrices of a worker that has built them are the
\* ones SetMatrixCoefficients makes
C18_AsBuilt ==
    \A w \in Procs : pc[w].at # "init" => coeffs[w] = SetMatrixCoefficients(par, Nyr, Nxr)

\* no step of a worker that has built its matrices changes an entry of them
C18_Frame ==
    \A w \in Procs : pc[w].at # "init" => coeffs'[w] = coeffs[w]

\* C18: once SetMatrixCoefficients has run, no step (NextVelocityState,
\* SetCaches, UpdateBoundsLinear, UpdateBoundsNonLinear, CopyAndDelete) and no
\* energy or output operation changes any entry of the four coefficient
\* matrices; they hold the same values in every step of the run.
C18_OperatorsImmutable == []C18_AsBuilt /\ [][C18_Frame]_vars

\* a worker with a neighbour has stepped, evaluated the energy and written
\* the output, diffusion and advection being active
C18_Witness ==
    /\ Px * Py = 2
    /\ nt = Nt
    /\ par.c # 0 /\ par.ax # 0
    /\ pc[0].at = "written"
    /\ k[0] = Nt - 1
    /\ U[0] # Block(U0, 0)
    /\ coeffs[0].dVel_dx_coeffs[<<0, 1>>] = 0 - par.ax * par.idx

\* a step changes the U or V of a worker only if it is the worker's own
\* CopyAndDelete, which stores the two next buffers
C19_Frame ==
    \A w \in Procs :
        (U'[w] # U[w] \/ V'[w] # V[w]) =>
            /\ pc[w].at = "copy"
            /\ pc'[w].at # "copy"
            /\ U'[w] = NextU[w]
            /\ V'[w] = NextV[w]
            /\ \A x \in Procs \ {w} : U'[x] = U[x] /\ V'[x] = V[x]

\* a step of NextVelocityState changes, of the fields and buffers of its
\* worker, only the halo buffers and the next buffer
C19_Evaluation ==
    \A w \in Procs :
        (pc[w].at \in {"post", "wait", "zero", "calc"} /\ pc'[w] # pc[w]) =>
            /\ U'[w] = U[w] /\ V'[w] = V[w]
            /\ pc[w].at # "calc" => NextU'[w] = NextU[w] /\ NextV'[w] = NextV[w]
            /\ (pc[w].at = "calc" /\ pc[w].sel) => NextV'[w] = NextV[w]
            /\ (pc[w].at = "calc" /\ ~pc[w].sel) => NextU'[w] = NextU[w]

\* C19: a call to NextVelocityState, for either component, leaves the
\* worker's U and V unchanged and writes only into the new next buffer and
\* the halo buffers; U and V change only in CopyAndDelete; a worker's U and V
\* are never written by another worker.
C19_NoInPlaceMutation == [][C19_Frame /\ C19_Evaluation]_vars

\* a worker with neighbours has committed a step that changed U and has
\* evaluated both components of the next step, which differ from the current
C19_Witness ==
    /\ Px = 2 /\ Py = 2
    /\ pc[3].at = "copy"
    /\ k[3] = 1
    /\ U[3] # Block(U0, 3)
    /\ NextU[3] # U[3]
    /\ NextV[3] # V[3]

\* ---------------------------------------------------------------------------
\* Matching of halo messages

\* the edge of field F that travels in the x-th MPI_Sendrecv of SetCaches
EdgeSent(F, x) ==
    CASE x = 1 -> Row(F, Nyr - 1)
      [] x = 2 -> Row(F, 0)
      [] x = 3 -> Col(F, Nxr - 1)
      [] x = 4 -> Col(F, 0)

\* the message that the receive posted by worker w would be matched with
\* now, as a set: empty if w has no receive pending or no message with the
\* tag has arrived
Matching(w) ==
    IF pc[w].at = "wait" /\ pc[w].x \notin got[w] /\ RecvFrom(w, pc[w].x) >= 0
    THEN LET q == chan[<<RecvFrom(w, pc[w].x), w>>]
             n == FirstTagged(q, Tag(pc[w].x), 1)
         IN  IF n > 0 THEN {q[n]} ELSE {}
    ELSE {}

\* C20: with tags 0 and 1 reused by every exchange of both components in
\* every step, and neighbours at different points of the step sequence, the
\* message a receive of worker w is matched with while w computes component X
\* at step k was sent by the neighbour's same exchange for X at step k, and
\* the halo values the boundary correction reads are the neighbour's edge of
\* X at level k, never the other component's and never another level's.
C20_NoMismatch ==
    \A w \in Procs :
        /\ \A msg \in Matching(w) :
              /\ msg.sel = pc[w].sel
              /\ msg.level = k[w]
              /\ msg.call = pc[w].x
              /\ msg.data = EdgeSent(SingleBlock(k[w], pc[w].sel, RecvFrom(w, pc[w].x)),
                                     pc[w].x)
        /\ pc[w].at = "calc" =>
              \A x \in 1 .. 4 :
                  RecvFrom(w, x) >= 0 =>
                      (CASE x = 1 -> upVel[w] [] x = 2 -> downVel[w]
                         [] x = 3 -> leftVel[w] [] x = 4 -> rightVel[w])
                          = EdgeSent(SingleBlock(k[w], pc[w].sel, RecvFrom(w, x)), x)

\* worker 0 is about to solve v in the second step while its right neighbour
\* has already committed that step; the halo it holds differs from the
\* neighbour's present edge and from the neighbour's edge of u
C20_Witness ==
    /\ Px >= 2
    /\ pc[0] = Pos("calc", FALSE, 0)
    /\ k[0] = 1
    /\ k[1] = 2
    /\ rightVel[0] = Col(SingleBlock(1, FALSE, 1), 0)
    /\ rightVel[0] # Col(V[1], 0)
    /\ rightVel[0] # Col(SingleBlock(1, TRUE, 1), 0)

\* ---------------------------------------------------------------------------
\* The truncating opens of data.txt

\* worker w has executed its of.open("data.txt", ios::out | ios::trunc)
HasOpened(w) == pc[w].at \in {"gather", "gathering", "write", "close", "written"}

\* the root has returned from the MPI_Gatherv of WriteOf(U, ...)
RootLeftGather ==
    \/ pc[0].at \in {"write", "close", "written"}
    \/ pc[0] = Pos("gather", FALSE, 0)
    \/ pc[0].at = "gathering" /\ ~pc[0].sel

\* a block is handed to the gather only by a worker that has opened the
\* file; the root leaves a gather, and the file holds a field, only when every
\* worker has opened it; once every worker has closed the file, it holds
\* the U and then the V field the root wrote
C21_OpensFirst ==
    /\ \A q \in Procs : gathered[q] # <<>> => HasOpened(q)
    /\ RootLeftGather => \A q \in Procs : HasOpened(q)
    /\ dataTxt # <<>> => \A q \in Procs : HasOpened(q)
    /\ (\A w \in Procs : pc[w].at = "written") =>
          /\ Len(dataTxt) = 2
          /\ dataTxt[1].id = "U" /\ dataTxt[1].by = 0
          /\ dataTxt[2].id = "V" /\ dataTxt[2].by = 0

\* a step in which a worker opens the file is taken while the file is empty
\* and the root has not left its first gather; no step removes a field from
\* the file
C21_NoErase ==
    /\ \A w \in Procs :
          (~HasOpened(w) /\ pc'[w].at # pc[w].at /\ pc[w].at = "open") =>
              /\ dataTxt = <<>>
              /\ ~RootLeftGather
    /\ Len(dataTxt') >= Len(dataTxt)
    /\ SubSeq(dataTxt', 1, Len(dataTxt)) = dataTxt

\* C21: in WriteVelocityFile every worker opens data.txt with truncation but
\* only the root writes to it; in every interleaving each worker's truncating
\* open occurs before the root's first write, because the root writes only
\* after a gather that needs a block from every worker and each worker hands
\* in its block only after its own open; the root's U and V output is never
\* erased.
C21_NoTruncationAfterWrite == []C21_OpensFirst /\ [][C21_NoErase]_vars

\* on a mesh of four workers the root has written U and is about to gather V,
\* one of the others has already closed the file (its blocks were buffered)
\* and another has not yet left WriteOf(U, ...)
C21_Witness ==
    /\ Px * Py = 4
    /\ Len(dataTxt) = 1
    /\ pc[0] = Pos("gather", FALSE, 0)
    /\ \E q \in Procs \ {0} : pc[q].at = "written"
    /\ \E q \in Procs \ {0} : pc[q] = Pos("write", TRUE, 0)

\* ---------------------------------------------------------------------------
\* The stores of SetInitialVelocity of the history-keeping solver

\* C22: every write SetInitialVelocity of src/Burgers.cpp makes into U0 is at
\* an index within [0, (Nx-2)*(Ny-2)), the allocated length of U0, for all
\* loop values of i and j: the iteration about to run stores inside U0, no
\* store has been made outside it, and no store has faulted.
C22_IndexSafety ==
    /\ (hpc = "loop" /\ hi < histNx) => StoreIndex(hi, hj) \in Allocated
    /\ wild = {}
    /\ hpc # "fault"

====
